---- MODULE Spec2Model ----
(***************************************************************************)
(* Model of the Ouroboros API client (src/oo_interface/client.py):         *)
(* OuroborosClient._request, the retrying HTTP dispatcher, and             *)
(* OuroborosClient.wait_for_execution, the status poller built on it.      *)
(*                                                                         *)
(* The remote service and the network are the environment: every transport *)
(* attempt either raises a connectivity exception or returns a response    *)
(* (status code, body text) drawn from small sets.  Time is a clock that   *)
(* advances only while the program sleeps (the transport is instantaneous  *)
(* on this clock).                                                         *)
(*                                                                         *)
(* The repository does not pin `requests`.  An error of response.json() is *)
(* a RequestException from requests 2.27 on and a plain ValueError before; *)
(* the version is chosen in the initial state and both are followed.       *)
(***************************************************************************)
EXTENDS Integers, Sequences, FiniteSets, TLC

VARIABLES
    self,              \* the client's configuration (set by __init__)
    requests_version,  \* which `requests` the build ships: decides the class of a JSON decode error
    now,               \* time.time()
    req,               \* the activation of _request in progress (or finished)
    w,                 \* the activation of wait_for_execution
    threads,           \* the activations of _request of callers that share the client
    cli,               \* the run of run.py's main: its arguments, position and exit status
    query,             \* a call of list_graphs or list_workflows: its arguments and query parameters
    health,            \* the activation of check_health
    collect            \* the activation of collect_dynamic_workflow_input

vars == <<self, requests_version, now, req, w, threads, cli, query, health, collect>>

----------------------------------------------------------------------------
(* Bounds of the model *)

\* largest max_retries a client is constructed with when _request is called directly
MaxRetries == 3
\* largest max_retries of a client on which wait_for_execution is called
MaxPollRetries == 1
\* largest number of status fetches of one wait_for_execution the model follows
MaxFetches == 3
\* largest max_retries of a client that concurrent callers share
MaxSharedRetries == 1
\* longest list of tags that list_graphs and list_workflows are called with
MaxTags == 3

----------------------------------------------------------------------------
(* JSON values.  A parsed JSON object is a record of the four keys the     *)
(* client reads; Absent marks a key that the object does not have.  The    *)
(* value of `error` is itself a JSON value: a string or an object with an  *)
(* optional `message`.                                                     *)

Absent == "<absent>"

NoError == [tag |-> "absent", value |-> Absent]
\* "error": "<s>"
ErrStr(s) == [tag |-> "string", value |-> s]
\* "error": {"message": "<m>"}  (m = Absent: "error": {})
ErrObj(m) == [tag |-> "object", value |-> m]

Obj(e, m, s, r) == [error |-> e, message |-> m, status |-> s, result |-> r]

\* the empty dict {}
EmptyDict == Obj(NoError, Absent, Absent, Absent)

\* the JSON documents the service may send, with the value each parses to
JsonDocs ==
    << [text |-> "{}", value |-> EmptyDict],
       [text |-> "{\"error\": {\"message\": \"bad field\"}}",
        value |-> Obj(ErrObj("bad field"), Absent, Absent, Absent)],
       [text |-> "{\"error\": {\"message\": \"bad field\"}, \"message\": \"oops\"}",
        value |-> Obj(ErrObj("bad field"), "oops", Absent, Absent)],
       [text |-> "{\"error\": {}}",
        value |-> Obj(ErrObj(Absent), Absent, Absent, Absent)],
       [text |-> "{\"error\": {}, \"message\": \"oops\"}",
        value |-> Obj(ErrObj(Absent), "oops", Absent, Absent)],
       [text |-> "{\"error\": \"boom\"}",
        value |-> Obj(ErrStr("boom"), Absent, Absent, Absent)],
       [text |-> "{\"error\": \"boom\", \"message\": \"oops\"}",
        value |-> Obj(ErrStr("boom"), "oops", Absent, Absent)],
       [text |-> "{\"message\": \"oops\"}",
        value |-> Obj(NoError, "oops", Absent, Absent)],
       [text |-> "{\"status\": \"running\"}",
        value |-> Obj(NoError, Absent, "running", Absent)],
       [text |-> "{\"status\": \"queued\"}",
        value |-> Obj(NoError, Absent, "queued", Absent)],
       [text |-> "{\"status\": \"completed\"}",
        value |-> Obj(NoError, Absent, "completed", Absent)],
       [text |-> "{\"status\": \"completed\", \"result\": \"r1\"}",
        value |-> Obj(NoError, Absent, "completed", "r1")],
       [text |-> "{\"status\": \"failed\"}",
        value |-> Obj(NoError, Absent, "failed", Absent)],
       [text |-> "{\"status\": \"failed\", \"error\": \"boom\"}",
        value |-> Obj(ErrStr("boom"), Absent, "failed", Absent)],
       [text |-> "{\"status\": \"cancelled\"}",
        value |-> Obj(NoError, Absent, "cancelled", Absent)] >>

JsonTexts == {JsonDocs[i].text : i \in DOMAIN JsonDocs}

\* bodies that are not JSON: the empty body and an HTML error page
EmptyBody == ""
HtmlBody == "<html>Bad Gateway</html>"

Bodies == {EmptyBody, HtmlBody} \cup JsonTexts

\* a status body that only an execution which never ends sends (see
\* InProgressResults)
PendingDocs ==
    << [text |-> "{\"status\": \"pending\"}",
        value |-> Obj(NoError, Absent, "pending", Absent)] >>

\* the body a healthy service answers GET /health with
HealthDocs ==
    << [text |-> "{\"status\": \"healthy\"}",
        value |-> Obj(NoError, Absent, "healthy", Absent)] >>

AllJsonDocs == JsonDocs \o PendingDocs \o HealthDocs

\* does response.json() succeed on this body?
IsJson(content) == content \in {AllJsonDocs[i].text : i \in DOMAIN AllJsonDocs}

\* response.json() on a body that parses
json(content) ==
    AllJsonDocs[CHOOSE i \in DOMAIN AllJsonDocs : AllJsonDocs[i].text = content].value

----------------------------------------------------------------------------
(* The transport: what session.request does on one attempt *)

StatusCodes == {200, 404, 500}

\* str(e) of the connectivity exceptions (subclasses of RequestException)
ConnectionErrorText == "Connection refused"
TimeoutText == "Read timed out"
\* str(e) of the JSON decode error raised by response.json()
JSONDecodeErrorText == "Expecting value: line 1 column 1 (char 0)"

TransportResults ==
    [kind : {"exception"}, exc : {ConnectionErrorText, TimeoutText},
     status_code : {0}, content : {EmptyBody}]
    \cup
    [kind : {"response"}, exc : {""},
     status_code : StatusCodes, content : Bodies]

----------------------------------------------------------------------------
(* APIError and the outcome of a call *)

\* status_code of an APIError raised without one (Optional[int] = None)
None == 0

\* no outcome yet: the call is still running
NoOutcome ==
    [kind |-> "none", message |-> "", status_code |-> None,
     details |-> EmptyDict, payload |-> EmptyDict]

\* the call returned `payload`
Returned(payload) ==
    [kind |-> "return", message |-> "", status_code |-> None,
     details |-> EmptyDict, payload |-> payload]

\* raise APIError(message, status_code, details)
APIError(message, status_code, details) ==
    [kind |-> "APIError", message |-> message, status_code |-> status_code,
     details |-> details, payload |-> EmptyDict]

\* an exception of response.json() that is not a RequestException leaves
\* _request as it is (no handler matches it)
RaisedJSONDecodeError ==
    [kind |-> "JSONDecodeError", message |-> JSONDecodeErrorText,
     status_code |-> None, details |-> EmptyDict, payload |-> EmptyDict]

----------------------------------------------------------------------------
(* OuroborosClient.__init__ *)

DefaultBaseUrl == "http://localhost:5001"
DefaultTimeout == 300

Client(max_retries) ==
    [api_base_url |-> DefaultBaseUrl, timeout |-> DefaultTimeout,
     max_retries |-> max_retries]

\* requests >= 2.27 raises requests.exceptions.JSONDecodeError, a
\* RequestException; older versions raise a plain ValueError subclass
RequestsVersions == {"<2.27", ">=2.27"}

JSONDecodeErrorIsRequestException(version) == version = ">=2.27"

----------------------------------------------------------------------------
(* OuroborosClient._request *)

\* the message of the APIError for a response with status >= 400
default_error_message(status_code) ==
    "Request failed with status " \o ToString(status_code)

error_message(resp) ==
    LET default == default_error_message(resp.status_code) IN
    IF ~IsJson(resp.content)
    THEN default                      \* response.json() raises; except: pass
    ELSE LET error_data == json(resp.content) IN
         IF error_data.error.tag # "absent"      \* 'error' in error_data
         THEN IF error_data.error.tag = "object"
              THEN IF error_data.error.value # Absent   \* .get('message', error_message)
                   THEN error_data.error.value
                   ELSE default
              ELSE default            \* str has no .get; except: pass
         ELSE IF error_data.message # Absent     \* elif 'message' in error_data
              THEN error_data.message
              ELSE default

\* what the body of the try statement does with the transport's result:
\* return a payload, raise APIError, or raise a JSON decode error
TryResult(tag, outcome) == [tag |-> tag, outcome |-> outcome]

\* success returned without parsing the body
try_block_unparsed(t) ==
    IF t.kind = "exception"
    THEN TryResult("exception", NoOutcome)
    ELSE IF t.status_code >= 400
         THEN TryResult("raise",
                  APIError(default_error_message(t.status_code), t.status_code, EmptyDict))
         ELSE TryResult("return", Returned(EmptyDict))

try_block(t) ==
    IF t.kind = "exception"
    THEN TryResult("exception", NoOutcome)
    ELSE IF t.status_code >= 400
         THEN IF t.content = EmptyBody        \* details = {}
              THEN TryResult("raise",
                       APIError(error_message(t), t.status_code, EmptyDict))
              ELSE IF IsJson(t.content)       \* details = response.json()
                   THEN TryResult("raise",
                            APIError(error_message(t), t.status_code, json(t.content)))
                   ELSE TryResult("json_error", NoOutcome)
         ELSE IF IsJson(t.content)            \* return response.json()
              THEN TryResult("return", Returned(json(t.content)))
              ELSE TryResult("json_error", NoOutcome)

\* a boundary slip: one retry too many
should_retry_inclusive(retry_count, max_retries) == retry_count <= max_retries

\* if retry_count < self.max_retries
should_retry(retry_count, max_retries) == retry_count < max_retries

\* a product where the power is meant
wait_time_product(retry_count) == 2 * retry_count

\* wait_time = 2 ** retry_count
wait_time(retry_count) == 2 ^ retry_count

\* the entries of a call's log: a transport attempt, or a finished sleep
AttemptEvent(t) ==
    [ev |-> "attempt", response |-> (t.kind = "response"),
     status_code |-> t.status_code, dur |-> 0]
SleepEvent(dur) ==
    [ev |-> "sleep", response |-> FALSE, status_code |-> 0, dur |-> dur]

\* `response` before session.request has returned in this activation
NoResponse == [kind |-> "none", exc |-> "", status_code |-> 0, content |-> EmptyBody]

\* no call in progress
IdleRequest ==
    [pc |-> "idle", method |-> "", endpoint |-> "", url |-> "", timeout |-> 0,
     retry_count |-> 0, wait_time |-> 0, response |-> NoResponse,
     log |-> << >>, outcome |-> NoOutcome]

\* entry of _request(method, endpoint) with retry_count = 0
\* the counterpart of NewRequest that builds the URL and the timeout from the
\* defaults instead of the client's configuration
NewRequest_defaults(cfg, method, endpoint) ==
    [pc |-> "request", method |-> method, endpoint |-> endpoint,
     url |-> DefaultBaseUrl \o endpoint, timeout |-> DefaultTimeout,
     retry_count |-> 0, wait_time |-> 0, response |-> NoResponse,
     log |-> << >>, outcome |-> NoOutcome]

\* the counterpart of NewRequest that carries the retry counter of the
\* client's previous call on
NewRequest_carried(cfg, method, endpoint) ==
    [pc |-> "request", method |-> method, endpoint |-> endpoint,
     url |-> cfg.api_base_url \o endpoint, timeout |-> cfg.timeout,
     retry_count |-> req.retry_count, wait_time |-> 0, response |-> NoResponse,
     log |-> << >>, outcome |-> NoOutcome]

NewRequest(cfg, method, endpoint) ==
    [pc |-> "request", method |-> method, endpoint |-> endpoint,
     url |-> cfg.api_base_url \o endpoint, timeout |-> cfg.timeout,
     retry_count |-> 0, wait_time |-> 0, response |-> NoResponse,
     log |-> << >>, outcome |-> NoOutcome]

\* the counterpart of except_RequestException that retries at once, without
\* the backoff sleep
except_RequestException_no_sleep(r, cfg, text) ==
    IF should_retry(r.retry_count, cfg.max_retries)
    THEN [r EXCEPT !.pc = "request", !.retry_count = r.retry_count + 1,
                   !.response = NoResponse]
    ELSE [r EXCEPT !.pc = "done",
                   !.outcome = APIError("Network error: " \o text, None, EmptyDict)]

\* the except clause: retry after a sleep, or raise the network error
except_RequestException(r, cfg, text) ==
    IF should_retry(r.retry_count, cfg.max_retries)
    THEN [r EXCEPT !.pc = "sleep", !.wait_time = wait_time(r.retry_count)]
    ELSE [r EXCEPT !.pc = "done",
                   !.outcome = APIError("Network error: " \o text, None, EmptyDict)]

\* one transport attempt of the call r and everything up to the sleep or the end
request_attempt(r, cfg, version, t) ==
    LET res == try_block(t)
        logged == [r EXCEPT !.log = Append(r.log, AttemptEvent(t)), !.response = t]
    IN  CASE res.tag = "exception" -> except_RequestException(logged, cfg, t.exc)
          [] res.tag = "json_error" ->
                IF JSONDecodeErrorIsRequestException(version)
                THEN except_RequestException(logged, cfg, JSONDecodeErrorText)
                ELSE [logged EXCEPT !.pc = "done", !.outcome = RaisedJSONDecodeError]
          [] OTHER -> [logged EXCEPT !.pc = "done", !.outcome = res.outcome]

\* the recursive call made without passing retry_count + 1 on
request_retry_same_count(r) ==
    [r EXCEPT !.pc = "request",
              !.log = Append(r.log, SleepEvent(r.wait_time)),
              !.wait_time = 0,
              !.response = NoResponse]

\* time.sleep(wait_time) is over: the recursive call with retry_count + 1
request_retry(r) ==
    [r EXCEPT !.pc = "request",
              !.retry_count = r.retry_count + 1,
              !.log = Append(r.log, SleepEvent(r.wait_time)),
              !.wait_time = 0,
              !.response = NoResponse]

----------------------------------------------------------------------------
(* OuroborosClient.wait_for_execution *)

\* the poll_interval and max_wait arguments the model calls it with
PollIntervals == {0, 2}
MaxWaits == {1, 3}
ExecutionIds == {"e1"}

\* get_execution_status: GET /executions/{execution_id}
status_endpoint(execution_id) == "/executions/" \o execution_id
\* get_execution_info: GET /executions/{execution_id}/info
info_endpoint(execution_id) == "/executions/" \o execution_id \o "/info"

\* no wait in progress
IdleWait ==
    [pc |-> "idle", execution_id |-> "", poll_interval |-> 0, max_wait |-> 0,
     start_time |-> 0, calls |-> << >>, observed |-> << >>,
     sleeps |-> << >>, outcome |-> NoOutcome]

\* entry of wait_for_execution: start_time = time.time()
NewWait(execution_id, poll_interval, max_wait, time) ==
    [IdleWait EXCEPT !.pc = "check", !.execution_id = execution_id,
                     !.poll_interval = poll_interval, !.max_wait = max_wait,
                     !.start_time = time]

\* the counterpart of deadline_exceeded that also fires at the deadline itself
deadline_exceeded_inclusive(time, start_time, max_wait) == time - start_time >= max_wait

\* if time.time() - start_time > max_wait
deadline_exceeded(time, start_time, max_wait) == time - start_time > max_wait

\* the counterpart of failure_reason that never reads the `error` field
failure_reason_unknown(status) == "Unknown error"

\* status.get('error', 'Unknown error'), formatted into the message
failure_reason(status) ==
    CASE status.error.tag = "absent" -> "Unknown error"
      [] status.error.tag = "string" -> status.error.value
      [] OTHER -> IF status.error.value = Absent
                  THEN "{}"
                  ELSE "{'message': '" \o status.error.value \o "'}"

\* the counterpart of wait_check that polls without looking at the clock
wait_check_no_deadline(wr, time) ==
    [wr EXCEPT !.pc = "status", !.calls = Append(wr.calls, "status")]

\* the top of the loop: raise the timeout, or call get_execution_status
wait_check(wr, time) ==
    IF deadline_exceeded(time, wr.start_time, wr.max_wait)
    THEN [wr EXCEPT !.pc = "done",
                    !.outcome = APIError("Execution timeout after "
                                            \o ToString(wr.max_wait) \o " seconds",
                                         None, EmptyDict)]
    ELSE [wr EXCEPT !.pc = "status", !.calls = Append(wr.calls, "status")]

\* the counterpart of wait_status_returned that returns the status payload
\* of a completed execution without fetching its information
wait_status_returned_no_info(wr, outcome) ==
    IF outcome.kind # "return"
    THEN [wr EXCEPT !.pc = "done", !.outcome = outcome]
    ELSE LET execution_status == outcome.payload.status
             seen == [wr EXCEPT !.observed = Append(wr.observed, execution_status)]
         IN  CASE execution_status = "completed" ->
                    [seen EXCEPT !.pc = "done", !.outcome = outcome]
               [] execution_status = "failed" ->
                    [seen EXCEPT !.pc = "done",
                                 !.outcome = APIError("Execution failed: "
                                                \o failure_reason(outcome.payload),
                                                None, EmptyDict)]
               [] execution_status = "cancelled" ->
                    [seen EXCEPT !.pc = "done",
                                 !.outcome = APIError("Execution was cancelled",
                                                      None, EmptyDict)]
               [] OTHER -> [seen EXCEPT !.pc = "sleep"]

\* the counterpart of wait_status_returned that rejects a status it does not
\* know
wait_status_returned_strict(wr, outcome) ==
    IF outcome.kind # "return"
    THEN [wr EXCEPT !.pc = "done", !.outcome = outcome]
    ELSE LET execution_status == outcome.payload.status
             seen == [wr EXCEPT !.observed = Append(wr.observed, execution_status)]
         IN  CASE execution_status = "completed" ->
                    [seen EXCEPT !.pc = "info", !.calls = Append(wr.calls, "info")]
               [] execution_status = "failed" ->
                    [seen EXCEPT !.pc = "done",
                                 !.outcome = APIError("Execution failed: "
                                                \o failure_reason(outcome.payload),
                                                None, EmptyDict)]
               [] execution_status = "cancelled" ->
                    [seen EXCEPT !.pc = "done",
                                 !.outcome = APIError("Execution was cancelled",
                                                      None, EmptyDict)]
               [] execution_status \in {"pending", "running"} ->
                    [seen EXCEPT !.pc = "sleep"]
               [] OTHER ->
                    [seen EXCEPT !.pc = "done",
                                 !.outcome = APIError("Unknown status", None, EmptyDict)]

\* the counterpart of wait_status_returned that takes a failed status fetch
\* for an in-progress status
wait_status_returned_swallow(wr, outcome) ==
    IF outcome.kind # "return"
    THEN [wr EXCEPT !.pc = "sleep"]
    ELSE LET execution_status == outcome.payload.status
             seen == [wr EXCEPT !.observed = Append(wr.observed, execution_status)]
         IN  CASE execution_status = "completed" ->
                    [seen EXCEPT !.pc = "info", !.calls = Append(wr.calls, "info")]
               [] execution_status = "failed" ->
                    [seen EXCEPT !.pc = "done",
                                 !.outcome = APIError("Execution failed: "
                                                \o failure_reason(outcome.payload),
                                                None, EmptyDict)]
               [] execution_status = "cancelled" ->
                    [seen EXCEPT !.pc = "done",
                                 !.outcome = APIError("Execution was cancelled",
                                                      None, EmptyDict)]
               [] OTHER -> [seen EXCEPT !.pc = "sleep"]

\* the counterpart of wait_status_returned that looks at the clock again
\* when the status fetch is over and gives the timeout if the deadline passed
\* meanwhile
wait_status_returned_deadline(wr, outcome) ==
    IF outcome.kind # "return"
    THEN [wr EXCEPT !.pc = "done", !.outcome = outcome]
    ELSE LET execution_status == outcome.payload.status
             seen == [wr EXCEPT !.observed = Append(wr.observed, execution_status)]
         IN  CASE now - wr.start_time > wr.max_wait ->
                    [seen EXCEPT !.pc = "done",
                                 !.outcome = APIError("Execution timeout after "
                                                \o ToString(wr.max_wait) \o " seconds",
                                                None, EmptyDict)]
               [] execution_status = "completed" ->
                    [seen EXCEPT !.pc = "info", !.calls = Append(wr.calls, "info")]
               [] execution_status = "failed" ->
                    [seen EXCEPT !.pc = "done",
                                 !.outcome = APIError("Execution failed: "
                                                \o failure_reason(outcome.payload),
                                                None, EmptyDict)]
               [] execution_status = "cancelled" ->
                    [seen EXCEPT !.pc = "done",
                                 !.outcome = APIError("Execution was cancelled",
                                                      None, EmptyDict)]
               [] OTHER -> [seen EXCEPT !.pc = "sleep"]

\* get_execution_status is over with `outcome`: an exception leaves
\* wait_for_execution; a payload is looked at for its status
wait_status_returned(wr, outcome) ==
    IF outcome.kind # "return"
    THEN [wr EXCEPT !.pc = "done", !.outcome = outcome]
    ELSE LET execution_status == outcome.payload.status
             seen == [wr EXCEPT !.observed = Append(wr.observed, execution_status)]
         IN  CASE execution_status = "completed" ->
                    [seen EXCEPT !.pc = "info", !.calls = Append(wr.calls, "info")]
               [] execution_status = "failed" ->
                    [seen EXCEPT !.pc = "done",
                                 !.outcome = APIError("Execution failed: "
                                                \o failure_reason(outcome.payload),
                                                None, EmptyDict)]
               [] execution_status = "cancelled" ->
                    [seen EXCEPT !.pc = "done",
                                 !.outcome = APIError("Execution was cancelled",
                                                      None, EmptyDict)]
               [] OTHER -> [seen EXCEPT !.pc = "sleep"]

\* return self.get_execution_info(execution_id)
wait_info_returned(wr, outcome) ==
    [wr EXCEPT !.pc = "done", !.outcome = outcome]

\* the counterpart of wait_slept whose sleep grows with the number of polls
wait_slept_growing(wr) ==
    [wr EXCEPT !.pc = "check",
               !.sleeps = Append(wr.sleeps, wr.poll_interval * (Len(wr.sleeps) + 1))]

\* time.sleep(poll_interval) is over
wait_slept(wr) ==
    [wr EXCEPT !.pc = "check", !.sleeps = Append(wr.sleeps, wr.poll_interval)]

----------------------------------------------------------------------------
(* collect_dynamic_workflow_input: no call yet *)

IdleCollect ==
    [pc |-> "idle", input_fields |-> << >>, index |-> 0, entries |-> << >>,
     collected_inputs |-> << >>, skipped |-> << >>, confirm |-> "<unasked>",
     outcome |-> "none"]

----------------------------------------------------------------------------
(* check_health: no call yet *)

IdleHealth == [pc |-> "idle", outcome |-> "none"]

----------------------------------------------------------------------------
(* list_graphs and list_workflows: no call yet *)

IdleQuery ==
    [pc |-> "idle", method |-> "", category |-> "", tags |-> << >>,
     search |-> "", endpoint |-> "", params |-> << >>]

----------------------------------------------------------------------------
(* run.py: the command line before main has started *)

\* parse_args() of a command line without options
NoArgs ==
    [list |-> FALSE, interactive |-> FALSE, name |-> "", type |-> "",
     input |-> "none", dynamic_input |-> FALSE, no_dynamic_input |-> FALSE]

\* main has not started
IdleCli ==
    [pc |-> "idle", args |-> NoArgs, requests |-> << >>, success |-> TRUE,
     graphs |-> "unset", workflows |-> "unset", target_type |-> "",
     input_data |-> "empty", collected |-> "unset", result |-> "unset",
     exit_code |-> 0, exit_line |-> 0, api_healthy |-> "unset",
     service_healthy |-> "unset", reply |-> ""]

----------------------------------------------------------------------------
(* Callers on several threads: each runs its own activation of _request on *)
(* the one client                                                          *)

Threads == {"t1", "t2"}

\* a thread's frame: its activation of _request, and the time at which the
\* sleep it is in (if any) is over
IdleFrame == [r |-> IdleRequest, wake |-> 0]
IdleThreads == [t \in Threads |-> IdleFrame]

----------------------------------------------------------------------------
(* Callers of _request: the thin endpoint wrappers *)

\* get_service_health, cancel_execution
Wrappers == { <<"GET", "/service/health">>, <<"POST", "/executions/e1/cancel">> }

InitRequest ==
    /\ self \in {Client(n) : n \in 0..MaxRetries}
    /\ requests_version \in RequestsVersions
    /\ now = 0
    /\ req = IdleRequest
    /\ w = IdleWait
    /\ threads = IdleThreads
    /\ cli = IdleCli
    /\ query = IdleQuery
    /\ health = IdleHealth
    /\ collect = IdleCollect

\* a wrapper calls self._request(method, endpoint)
Call_request ==
    /\ req.pc = "idle"
    /\ w.pc = "idle"
    /\ \E c \in Wrappers : req' = NewRequest(self, c[1], c[2])
    /\ UNCHANGED <<self, requests_version, now, w, threads, cli, query, health, collect>>

\* self.session.request(...) raises or returns, and the call handles it
Transport ==
    /\ req.pc = "request"
    /\ \E t \in TransportResults : req' = request_attempt(req, self, requests_version, t)
    /\ UNCHANGED <<self, requests_version, now, w, threads, cli, query, health, collect>>

\* the backoff sleep ends
BackoffSleep ==
    /\ req.pc = "sleep"
    /\ now' = now + req.wait_time
    /\ req' = request_retry(req)
    /\ UNCHANGED <<self, requests_version, w, threads, cli, query, health, collect>>

NextRequest == Call_request \/ Transport \/ BackoffSleep

Spec == InitRequest /\ [][NextRequest]_vars

\* the scheduling of one call: a transport call ends (the timeout bounds it)
\* and a sleep ends
FairSpec == Spec /\ WF_vars(NextRequest)

----------------------------------------------------------------------------
(* A client on which wait_for_execution is called *)

InitWait ==
    /\ self \in {Client(n) : n \in 0..MaxPollRetries}
    /\ requests_version \in RequestsVersions
    /\ now = 0
    /\ req = IdleRequest
    /\ w = IdleWait
    /\ threads = IdleThreads
    /\ cli = IdleCli
    /\ query = IdleQuery
    /\ health = IdleHealth
    /\ collect = IdleCollect

\* number of get_execution_status calls of the wait so far
IsStatusCall(c) == c = "status"
StatusFetches(wr) == Len(SelectSeq(wr.calls, IsStatusCall))

Call_wait_for_execution ==
    /\ w.pc = "idle"
    /\ req.pc = "idle"
    /\ \E id \in ExecutionIds, poll_interval \in PollIntervals, max_wait \in MaxWaits :
          w' = NewWait(id, poll_interval, max_wait, now)
    /\ UNCHANGED <<self, requests_version, now, req, threads, cli, query, health, collect>>

\* the top of the loop (the model follows at most MaxFetches status fetches)
WaitCheck ==
    /\ w.pc = "check"
    /\ deadline_exceeded(now, w.start_time, w.max_wait) \/ StatusFetches(w) < MaxFetches
    /\ w' = wait_check(w, now)
    /\ req' = IF w'.pc = "status"
              THEN NewRequest(self, "GET", status_endpoint(w.execution_id))
              ELSE req
    /\ UNCHANGED <<self, requests_version, now, threads, cli, query, health, collect>>

WaitStatusReturned ==
    /\ w.pc = "status"
    /\ req.pc = "done"
    /\ w' = wait_status_returned(w, req.outcome)
    /\ req' = CASE w'.pc = "info" -> NewRequest(self, "GET", info_endpoint(w.execution_id))
                [] w'.pc = "sleep" -> IdleRequest
                [] OTHER -> req
    /\ UNCHANGED <<self, requests_version, now, threads, cli, query, health, collect>>

WaitInfoReturned ==
    /\ w.pc = "info"
    /\ req.pc = "done"
    /\ w' = wait_info_returned(w, req.outcome)
    /\ UNCHANGED <<self, requests_version, now, req, threads, cli, query, health, collect>>

WaitPollSleep ==
    /\ w.pc = "sleep"
    /\ now' = now + w.poll_interval
    /\ w' = wait_slept(w)
    /\ UNCHANGED <<self, requests_version, req, threads, cli, query, health, collect>>

NextWait ==
    \/ Call_wait_for_execution
    \/ WaitCheck
    \/ Transport
    \/ BackoffSleep
    \/ WaitStatusReturned
    \/ WaitInfoReturned
    \/ WaitPollSleep

SpecWait == InitWait /\ [][NextWait]_vars

----------------------------------------------------------------------------
(* Reading a call's log *)

AttemptIdx(r) == {i \in DOMAIN r.log : r.log[i].ev = "attempt"}
SleepIdx(r) == {i \in DOMAIN r.log : r.log[i].ev = "sleep"}

\* number of transport attempts of the call so far
Attempts(r) == Cardinality(AttemptIdx(r))

\* the lengths of the call's sleeps, in order
IsSleep(e) == e.ev = "sleep"
SleepDurations(r) ==
    LET ss == SelectSeq(r.log, IsSleep) IN [k \in 1..Len(ss) |-> ss[k].dur]

RECURSIVE SumSeq(_)
SumSeq(q) == IF q = << >> THEN 0 ELSE q[1] + SumSeq(Tail(q))

\* every attempt so far raised a connectivity exception (no response received)
AllAttemptsRaised(r) ==
    /\ Attempts(r) > 0
    /\ \A i \in AttemptIdx(r) : ~r.log[i].response

\* the failure of line 131: APIError("Network error: ..."), no status code
NetworkErrorMessages ==
    {"Network error: " \o e : e \in {ConnectionErrorText, TimeoutText, JSONDecodeErrorText}}
IsNetworkError(o) ==
    /\ o.kind = "APIError"
    /\ o.status_code = None
    /\ o.message \in NetworkErrorMessages

\* the failure of lines 114-118: APIError carrying the response's status code
IsApplicationError(o, status_code) ==
    /\ o.kind = "APIError"
    /\ o.status_code = status_code

----------------------------------------------------------------------------
(* Claims about _request *)

\* C1 (retry ceiling): while every transport attempt of a call raises a
\* connectivity exception, the call makes at most max_retries + 1 attempts,
\* it ends exactly when it has made max_retries + 1, and it ends with the
\* network error, whose status_code is None.
C1_RetryCeiling ==
    AllAttemptsRaised(req) =>
        /\ Attempts(req) <= self.max_retries + 1
        /\ (req.pc = "done") = (Attempts(req) = self.max_retries + 1)
        /\ req.pc = "done" =>
              /\ IsNetworkError(req.outcome)
              /\ req.outcome.status_code = None

C1_Witness ==
    /\ req.pc = "done"
    /\ AllAttemptsRaised(req)
    /\ self.max_retries = 3
    /\ Attempts(req) = 4
    /\ req.outcome.message = "Network error: Read timed out"

\* C2 (termination and retry bound): whatever the transport does, a call
\* never makes more than max_retries + 1 attempts, its retry counter never
\* exceeds max_retries (and is below it whenever a retry is started), it has
\* an outcome exactly when it is over, the outcome never changes afterwards,
\* and every call that has started ends.
C2_SafetyPart ==
    /\ Attempts(req) <= self.max_retries + 1
    /\ req.retry_count <= self.max_retries
    /\ req.pc = "sleep" => req.retry_count < self.max_retries
    /\ (req.pc = "done") = (req.outcome.kind # "none")
    /\ req.outcome.kind \in {"none", "return", "APIError", "JSONDecodeError"}

C2_Terminates ==
    /\ []C2_SafetyPart
    /\ [][req.pc = "done" => req' = req]_vars
    /\ (req.pc \in {"request", "sleep"}) ~> (req.pc = "done")

C2_Witness ==
    /\ req.pc = "done"
    /\ Attempts(req) = self.max_retries + 1
    /\ self.max_retries = 2
    /\ req.outcome.kind = "return"

\* C5 (transparent recovery): when the last attempt of a finished call got a
\* response with a status below 400 and a body that parses, and every attempt
\* before it raised a connectivity exception, the call returns the parsed body,
\* after j + 1 attempts and j sleeps, j being the number of failures.
C5_Recovered(r) ==
    /\ r.pc = "done"
    /\ r.response.kind = "response"
    /\ r.response.status_code < 400
    /\ IsJson(r.response.content)
    /\ \A i \in AttemptIdx(r) : i < Len(r.log) => ~r.log[i].response

C5_TransparentRecovery ==
    C5_Recovered(req) =>
        /\ req.outcome = Returned(json(req.response.content))
        /\ Attempts(req) = req.retry_count + 1
        /\ Cardinality(SleepIdx(req)) = req.retry_count
        /\ req.retry_count <= self.max_retries

C5_Witness ==
    /\ C5_Recovered(req)
    /\ req.retry_count = 3
    /\ Attempts(req) = 4
    /\ req.response.content = "{\"status\": \"completed\", \"result\": \"r1\"}"
    /\ req.outcome.kind = "return"
    /\ req.outcome.payload.result = "r1"

\* C6 (backoff timing): the log of a call starts with an attempt, every later
\* attempt comes right after exactly one sleep, the k-th sleep (from 0) lasts
\* 2^k, the clock has advanced by the sleeps and nothing else, and a call that
\* has used all its max_retries = N retries has slept 2^N - 1 in total.
C6_BackoffTiming ==
    LET log == req.log
        durs == SleepDurations(req)
    IN  /\ log # << >> => log[1].ev = "attempt"
        /\ \A i \in DOMAIN log :
              /\ (i > 1 /\ log[i].ev = "attempt") => log[i-1].ev = "sleep"
              /\ log[i].ev = "sleep" => (i > 1 /\ log[i-1].ev = "attempt")
        /\ \A k \in DOMAIN durs : durs[k] = 2 ^ (k - 1)
        /\ Len(durs) = req.retry_count
        /\ now = SumSeq(durs)
        /\ req.retry_count = self.max_retries => now = 2 ^ self.max_retries - 1

C6_Witness ==
    /\ req.pc = "done"
    /\ self.max_retries = 3
    /\ SleepDurations(req) = <<1, 2, 4>>
    /\ now = 7

\* C3 (no retry on HTTP error): an attempt that got a response with a status
\* of 400 or more, whatever its body, is the last entry of the call's log (no
\* sleep and no attempt follows it), and the call is over with an APIError
\* carrying that status code.
C3_NoRetryOnHttpError ==
    \A i \in AttemptIdx(req) :
        (req.log[i].response /\ req.log[i].status_code >= 400) =>
            /\ i = Len(req.log)
            /\ req.pc = "done"
            /\ IsApplicationError(req.outcome, req.log[i].status_code)

\* C4 (retries only after transient failures): an attempt that is followed by
\* another attempt of the same call received no HTTP response.
C4_RetryOnlyAfterTransient ==
    \A i, j \in AttemptIdx(req) : i < j => ~req.log[i].response

\* C7 (error message precedence): for a response with a status of 400 or more
\* whose body is a JSON object, the message of the APIError is
\* body.error.message if present, else body.message if present, else
\* "Request failed with status <code>".
C7_ExpectedMessage(resp) ==
    LET body == json(resp.content) IN
    IF body.error.tag = "object" /\ body.error.value # Absent
    THEN body.error.value
    ELSE IF body.message # Absent
         THEN body.message
         ELSE "Request failed with status " \o ToString(resp.status_code)

C7_MessagePrecedence ==
    ( /\ req.response.kind = "response"
      /\ req.response.status_code >= 400
      /\ IsJson(req.response.content) ) =>
        /\ req.pc = "done"
        /\ IsApplicationError(req.outcome, req.response.status_code)
        /\ req.outcome.message = C7_ExpectedMessage(req.response)

\* C8 (error-body fallback): for a response with a status of 400 or more whose
\* body is empty or does not parse as JSON, the call is over with an APIError
\* that carries the status code, the message "Request failed with status
\* <code>" and empty details.
C8_ErrorBodyFallback ==
    ( /\ req.response.kind = "response"
      /\ req.response.status_code >= 400
      /\ ~IsJson(req.response.content) ) =>
        /\ req.pc = "done"
        /\ req.outcome =
             APIError("Request failed with status " \o ToString(req.response.status_code),
                      req.response.status_code, EmptyDict)

\* C9 (malformed 2xx response): after a response with a status below 400 whose
\* body does not parse as JSON, the call is over (no retry) with a failure that
\* is not the network error, and not with a returned payload.
C9_MalformedResponse ==
    ( /\ req.response.kind = "response"
      /\ req.response.status_code < 400
      /\ ~IsJson(req.response.content) ) =>
        /\ req.pc = "done"
        /\ req.outcome.kind \notin {"none", "return"}
        /\ ~IsNetworkError(req.outcome)

----------------------------------------------------------------------------
(* Claims about wait_for_execution *)

TerminalStatuses == {"completed", "failed", "cancelled"}

\* the statuses seen so far are k >= 0 non-terminal ones and then `completed`
C10_CompletedSeen(wr) ==
    /\ wr.observed # << >>
    /\ wr.observed[Len(wr.observed)] = "completed"
    /\ \A i \in 1..(Len(wr.observed) - 1) : wr.observed[i] \notin TerminalStatuses

\* C10 (poller success path): once the statuses seen are k non-terminal ones
\* followed by `completed`, the wait has made exactly k + 1 status fetches
\* and then exactly one information fetch (GET /executions/{id}/info), with k
\* sleeps between the status fetches; when it is over, no request is in
\* flight, no step is left to take, and its outcome is that of the
\* information fetch: the parsed body that fetch returned.
C10_PollerSuccessPath ==
    C10_CompletedSeen(w) =>
        LET k == Len(w.observed) - 1 IN
        /\ w.pc \in {"info", "done"}
        /\ w.calls = [i \in 1..(k + 1) |-> "status"] \o <<"info">>
        /\ w.sleeps = [i \in 1..k |-> w.poll_interval]
        /\ req.method = "GET"
        /\ req.endpoint = "/executions/" \o w.execution_id \o "/info"
        /\ w.pc = "info" => w.outcome = NoOutcome
        /\ w.pc = "done" =>
              /\ req.pc = "done"
              /\ ~ENABLED NextWait
              /\ w.outcome = req.outcome
              /\ req.outcome.kind = "return" =>
                    w.outcome = Returned(json(req.response.content))

C10_Witness ==
    /\ w.pc = "done"
    /\ w.poll_interval = 0
    /\ w.observed = <<"running", "running", "completed">>
    /\ w.calls = <<"status", "status", "status", "info">>
    /\ w.outcome.kind = "return"
    /\ w.outcome.payload.result = "r1"

\* the last status the wait has seen is `s`
LastObserved(wr, s) ==
    /\ wr.observed # << >>
    /\ wr.observed[Len(wr.observed)] = s

\* the wait is over right after the status fetch that gave the last status
\* seen: every call was a status fetch, one sleep lies between two fetches
\* and none after the last, and no step is left to take
StoppedAtLastStatus(wr) ==
    /\ wr.pc = "done"
    /\ wr.calls = [i \in 1..Len(wr.observed) |-> "status"]
    /\ wr.sleeps = [i \in 1..(Len(wr.observed) - 1) |-> wr.poll_interval]
    /\ ~ENABLED NextWait

\* C11 (poller failure paths): once a status fetch has reported `failed`,
\* the wait is over with APIError("Execution failed: <reason>"), where
\* <reason> is the string of the body's `error` field, or "Unknown error"
\* when the body has none; once it has reported `cancelled`, the wait is over
\* with APIError("Execution was cancelled").  In both cases there is no
\* information fetch, no later status fetch and no later sleep.
C11_PollerFailurePaths ==
    /\ LastObserved(w, "failed") =>
          /\ StoppedAtLastStatus(w)
          /\ req.pc = "done"
          /\ req.endpoint = "/executions/" \o w.execution_id
          /\ LET status == json(req.response.content)
                 reason == IF status.error = NoError
                           THEN "Unknown error"
                           ELSE status.error.value
             IN  /\ status.status = "failed"
                 /\ w.outcome.kind = "APIError"
                 /\ w.outcome.message = "Execution failed: " \o reason
    /\ LastObserved(w, "cancelled") =>
          /\ StoppedAtLastStatus(w)
          /\ w.outcome.kind = "APIError"
          /\ w.outcome.message = "Execution was cancelled"

C11_Witness ==
    /\ w.pc = "done"
    /\ w.observed = <<"running", "failed">>
    /\ w.poll_interval = 2
    /\ w.sleeps = <<2>>
    /\ w.outcome.message = "Execution failed: boom"

----------------------------------------------------------------------------
(* An execution that never reports a terminal status: every response to a  *)
(* status fetch is a 200 whose body has an in-progress status or none, and *)
(* a transport attempt may still raise a connectivity exception.           *)

PendingResults ==
    [kind : {"response"}, exc : {""}, status_code : {200},
     content : {PendingDocs[i].text : i \in DOMAIN PendingDocs}]

InProgressResults ==
    {t \in TransportResults \cup PendingResults :
        \/ t.kind = "exception"
        \/ /\ t.status_code = 200
           /\ IsJson(t.content)
           /\ json(t.content).status \notin TerminalStatuses}

TransportInProgress ==
    /\ req.pc = "request"
    /\ \E t \in InProgressResults : req' = request_attempt(req, self, requests_version, t)
    /\ UNCHANGED <<self, requests_version, now, w, threads, cli, query, health, collect>>

NextWaitInProgress ==
    \/ Call_wait_for_execution
    \/ WaitCheck
    \/ TransportInProgress
    \/ BackoffSleep
    \/ WaitStatusReturned
    \/ WaitPollSleep

\* the scheduling of one wait: a transport call ends, a sleep ends, and the
\* interpreter goes on to the next statement
FairSpecWaitInProgress ==
    InitWait /\ [][NextWaitInProgress]_vars /\ WF_vars(NextWaitInProgress)

\* the wait is over with the failure of line 768
TimedOut(wr) ==
    /\ wr.pc = "done"
    /\ wr.outcome = APIError("Execution timeout after "
                                \o ToString(wr.max_wait) \o " seconds",
                             None, EmptyDict)

\* every status fetch so far returned a status, and none was terminal
OnlyInProgressSeen(wr) ==
    /\ Len(wr.observed) = Len(wr.calls)
    /\ \A i \in DOMAIN wr.observed : wr.observed[i] \notin TerminalStatuses

\* C12 (poller timeout): when the execution never reports a terminal status
\* and the wait sleeps a positive poll_interval between its fetches, the wait
\* eventually ends with the timeout error (unless a status fetch ends in a
\* network error first); the timeout is raised only when
\* now - start_time > max_wait (strictly); and a wait that has ended although
\* every status fetch returned a status has ended with the timeout error.
C12_PollerTimeout ==
    /\ [](TimedOut(w) => now - w.start_time > w.max_wait)
    /\ [](w.pc = "done" /\ OnlyInProgressSeen(w) => TimedOut(w))
    /\ (w.pc \notin {"idle", "done"} /\ w.poll_interval > 0)
          ~> (TimedOut(w) \/ (w.pc = "done" /\ IsNetworkError(w.outcome)))

C12_Witness ==
    /\ TimedOut(w)
    /\ w.observed = <<"running", "queued">>
    /\ w.max_wait = 3
    /\ now - w.start_time = 4

\* a terminal status is among those the wait has seen
TerminalSeen(wr) == \E i \in DOMAIN wr.observed : wr.observed[i] \in TerminalStatuses

\* C13 (polling stop invariant): a status fetch (one call of
\* get_execution_status, retries included) is issued only while no terminal
\* status has been seen and now - start_time <= max_wait; once a terminal
\* status has been seen or the timeout has been raised, the number of status
\* fetches stays what it was.
C13_PollingStops ==
    /\ [][ StatusFetches(w') > StatusFetches(w) =>
             /\ ~TerminalSeen(w)
             /\ now - w.start_time <= w.max_wait ]_vars
    /\ [][ TerminalSeen(w) \/ TimedOut(w) =>
             StatusFetches(w') = StatusFetches(w) ]_vars
    /\ [](TerminalSeen(w) =>
             /\ w.pc \in {"info", "done"}
             /\ StatusFetches(w) = Len(w.observed)
             /\ ~TerminalSeen([w EXCEPT !.observed = SubSeq(w.observed, 1, Len(w.observed) - 1)]))

C13_Witness ==
    /\ TimedOut(w)
    /\ w.max_wait = 1
    /\ w.poll_interval = 2
    /\ StatusFetches(w) = 1
    /\ now - w.start_time = 2

\* the fetch the wait is waiting for has ended in a failure of _request
FetchFailed ==
    /\ w.pc \in {"status", "info"}
    /\ req.pc = "done"
    /\ req.outcome.kind # "return"

\* C14 (the poller never swallows a dispatcher failure): when the status
\* fetch or the information fetch of a wait has ended in a failure, the next
\* step ends the wait with that same failure, without a sleep, a fetch or a
\* status recorded; and a wait that ended so has no step left to take.
C14_FailurePropagates ==
    /\ [][ FetchFailed =>
             /\ w'.pc = "done"
             /\ w'.outcome = req.outcome
             /\ w'.calls = w.calls
             /\ w'.sleeps = w.sleeps
             /\ w'.observed = w.observed
             /\ now' = now
             /\ req' = req ]_vars
    /\ [](FetchFailed => ENABLED NextWait)
    /\ []( ( /\ w.pc = "done"
             /\ req.pc = "done"
             /\ req.outcome.kind # "return" ) =>
              /\ w.outcome = req.outcome
              /\ ~ENABLED NextWait )

C14_Witness ==
    /\ w.pc = "done"
    /\ w.observed = <<"running">>
    /\ w.calls = <<"status", "status">>
    /\ w.sleeps = <<2>>
    /\ self.max_retries = 1
    /\ Attempts(req) = 2
    /\ IsNetworkError(w.outcome)

\* the status fetch the wait is waiting for has returned a body whose status
\* is none of completed, failed, cancelled
InProgressReturned ==
    /\ w.pc = "status"
    /\ req.pc = "done"
    /\ req.outcome.kind = "return"
    /\ req.outcome.payload.status \notin TerminalStatuses

\* C15 (unknown status tolerance): when a status fetch has returned a body
\* whose status is not terminal (pending, running, the unknown queued, or no
\* status field), the next step records it and goes to sleep with nothing
\* raised; the sleep lasts poll_interval and leads back to the top of the
\* loop; and from there, unless the deadline has passed, the wait fetches
\* the status again.
C15_UnknownStatusTolerance ==
    /\ [][ InProgressReturned =>
             /\ w'.pc = "sleep"
             /\ w'.outcome = NoOutcome
             /\ w'.observed = Append(w.observed, req.outcome.payload.status)
             /\ w'.calls = w.calls
             /\ now' = now ]_vars
    /\ [][ w.pc = "sleep" =>
             /\ w'.pc = "check"
             /\ w'.outcome = NoOutcome
             /\ w'.sleeps = Append(w.sleeps, w.poll_interval)
             /\ now' = now + w.poll_interval ]_vars
    /\ [][ w.pc = "check" /\ now - w.start_time <= w.max_wait =>
             /\ w'.pc = "status"
             /\ w'.outcome = NoOutcome
             /\ w'.calls = Append(w.calls, "status")
             /\ req'.pc = "request"
             /\ req'.endpoint = "/executions/" \o w.execution_id ]_vars
    /\ [](InProgressReturned \/ w.pc = "sleep" => ENABLED NextWaitInProgress)

C15_Witness ==
    /\ w.pc = "check"
    /\ w.observed = <<"pending", "queued", Absent>>
    /\ w.sleeps = <<0, 0, 0>>
    /\ StatusFetches(w) = 3
    /\ w.outcome = NoOutcome

\* how the wait ended: by the deadline, by a `failed` or `cancelled` status,
\* or by a fetch that ended in the network error
WaitCause(wr) ==
    CASE wr.pc # "done" -> "none"
      [] LastObserved(wr, "failed") -> "failed"
      [] LastObserved(wr, "cancelled") -> "cancelled"
      [] Len(wr.calls) > Len(wr.observed) ->
            IF IsNetworkError(wr.outcome) THEN "network" ELSE "other"
      [] OTHER -> "timeout"

FailureCauses == {"timeout", "failed", "cancelled", "network"}

\* the failures that wait_for_execution raises for each cause
FailuresOf(cause) ==
    CASE cause = "timeout" ->
            {wait_check(NewWait("e1", 0, m, 0), m + 1).outcome : m \in MaxWaits}
      [] cause = "failed" ->
            {wait_status_returned(NewWait("e1", 0, 1, 0),
                                  Returned(json("{\"status\": \"failed\"}"))).outcome,
             wait_status_returned(NewWait("e1", 0, 1, 0),
                                  Returned(json("{\"status\": \"failed\", \"error\": \"boom\"}"))).outcome}
      [] cause = "cancelled" ->
            {wait_status_returned(NewWait("e1", 0, 1, 0),
                                  Returned(json("{\"status\": \"cancelled\"}"))).outcome}
      [] OTHER ->
            {except_RequestException(NewRequest(self, "GET", "/executions/e1"),
                                     Client(0), e).outcome :
                e \in {ConnectionErrorText, TimeoutText, JSONDecodeErrorText}}

\* what a caller can test of a failure without reading its message: the
\* exception class and the attributes status_code and details
FailureKind(o) == <<o.kind, o.status_code, o.details>>

\* C16 (poller outcome kinds are distinguishable): the failure a wait ended
\* with for one cause (timeout, failed, cancelled, network failure) differs
\* in its kind, and not only in its message, from every failure that
\* wait_for_execution raises for another of these causes.
C16_DistinguishableKinds ==
    \A c \in FailureCauses :
        WaitCause(w) = c =>
            /\ w.outcome \in FailuresOf(c)
            /\ \A d \in FailureCauses \ {c} :
                  \A o \in FailuresOf(d) : FailureKind(w.outcome) # FailureKind(o)

\* what does hold: the four causes give failures of the one class APIError
\* with no status code and no details, told apart by their messages only
C16_SameKindDistinctMessages ==
    \A c \in FailureCauses :
        WaitCause(w) = c =>
            /\ w.outcome \in FailuresOf(c)
            /\ FailureKind(w.outcome) = <<"APIError", None, EmptyDict>>
            /\ \A d \in FailureCauses \ {c} :
                  \A o \in FailuresOf(d) : w.outcome.message # o.message

----------------------------------------------------------------------------
(* Calls of _request interleaved on one client.  retry_count is a parameter *)
(* of _request (line 73): it lives in the activation, one per call.         *)

RECURSIVE TotalRetries(_, _)
TotalRetries(ts, S) ==
    IF S = {} THEN 0
    ELSE LET t == CHOOSE x \in S : TRUE
         IN  ts[t].r.retry_count + TotalRetries(ts, S \ {t})

\* the counterpart of activation for a retry counter kept on the client and
\* shared by the calls in progress
activation_shared_counter(ts, t) ==
    [ts[t].r EXCEPT !.retry_count = TotalRetries(ts, Threads)]

\* the activation that the thread t runs: its own parameters and locals
activation(ts, t) == ts[t].r

\* what the transport does for the interleaved calls: a connectivity
\* exception, or a 200 or 500 with the body {} or an HTML page
SharedResults ==
    {t \in TransportResults :
        \/ t.kind = "exception"
        \/ /\ t.kind = "response"
           /\ t.status_code \in {200, 500}
           /\ t.content \in {"{}", HtmlBody}}

InitShared ==
    /\ self \in {Client(n) : n \in 0..MaxSharedRetries}
    /\ requests_version \in RequestsVersions
    /\ now = 0
    /\ req = IdleRequest
    /\ w = IdleWait
    /\ threads = IdleThreads
    /\ cli = IdleCli
    /\ query = IdleQuery
    /\ health = IdleHealth
    /\ collect = IdleCollect

\* the thread t calls a wrapper, which calls self._request(method, endpoint)
ThreadCall(t) ==
    /\ threads[t].r.pc = "idle"
    /\ \E c \in Wrappers :
          threads' = [threads EXCEPT ![t] = [r |-> NewRequest(self, c[1], c[2]), wake |-> 0]]
    /\ UNCHANGED <<self, requests_version, now, req, w, cli, query, health, collect>>

\* a transport attempt of the thread t raises or returns, and t handles it
ThreadTransport(t) ==
    /\ threads[t].r.pc = "request"
    /\ \E tr \in SharedResults :
          LET r2 == request_attempt(activation(threads, t), self, requests_version, tr)
          IN  threads' = [threads EXCEPT ![t] =
                             [r |-> r2,
                              wake |-> IF r2.pc = "sleep" THEN now + r2.wait_time ELSE 0]]
    /\ UNCHANGED <<self, requests_version, now, req, w, cli, query, health, collect>>

\* the backoff sleep of the thread t ends, not before its time is over
ThreadBackoffSleep(t) ==
    /\ threads[t].r.pc = "sleep"
    /\ now' = IF now > threads[t].wake THEN now ELSE threads[t].wake
    /\ threads' = [threads EXCEPT ![t] =
                       [r |-> request_retry(activation(threads, t)), wake |-> 0]]
    /\ UNCHANGED <<self, requests_version, req, w, cli, query, health, collect>>

NextShared ==
    \E t \in Threads : ThreadCall(t) \/ ThreadTransport(t) \/ ThreadBackoffSleep(t)

SpecShared == InitShared /\ [][NextShared]_vars

\* C17 (independent retry state under concurrency): in every interleaving
\* of the calls, each call's retry_count is 0 when the call starts, goes up
\* by one exactly when that call's own backoff sleep ends, and equals the
\* number of that call's own retried failures; each call makes at most
\* max_retries + 1 attempts, and a call whose attempts all raised ends after
\* exactly max_retries + 1 of them, whatever the other calls did.
C17_IndependentRetryState ==
    /\ [](\A t \in Threads :
            LET r == threads[t].r IN
            /\ r.retry_count = Cardinality(SleepIdx(r))
            /\ Attempts(r) <= self.max_retries + 1
            /\ Attempts(r) = IF r.pc \in {"sleep", "done"} THEN r.retry_count + 1
                                                            ELSE r.retry_count
            /\ (r.pc = "done" /\ AllAttemptsRaised(r)) =>
                   /\ Attempts(r) = self.max_retries + 1
                   /\ IsNetworkError(r.outcome))
    /\ [][ \A t \in Threads :
             threads'[t].r.retry_count # threads[t].r.retry_count =>
                /\ threads[t].r.pc = "sleep"
                /\ threads'[t].r.retry_count = threads[t].r.retry_count + 1
                /\ \A u \in Threads \ {t} : threads'[u] = threads[u] ]_vars
    /\ [][ \A t \in Threads :
             (threads[t].r.pc = "idle" /\ threads'[t].r.pc # "idle") =>
                threads'[t].r.retry_count = 0 ]_vars

C17_Witness ==
    /\ self.max_retries = 1
    /\ threads["t1"].r.pc = "done"
    /\ AllAttemptsRaised(threads["t1"].r)
    /\ Attempts(threads["t1"].r) = 2
    /\ threads["t2"].r.pc = "done"
    /\ threads["t2"].r.outcome.kind = "return"
    /\ Attempts(threads["t2"].r) = 2
    /\ now = 1

----------------------------------------------------------------------------
(* Clients constructed with arguments of their own, on which wrappers and  *)
(* wait_for_execution are called                                           *)

\* a base URL given with a trailing slash
SlashedBaseUrl == "http://api.example:8080/"

\* api_base_url.rstrip('/') on the base URLs the model constructs clients with
rstrip_slash(url) ==
    CASE url = SlashedBaseUrl -> "http://api.example:8080"
      [] OTHER -> url

\* OuroborosClient(api_base_url, timeout, max_retries)
OuroborosClient(api_base_url, timeout, max_retries) ==
    [api_base_url |-> rstrip_slash(api_base_url), timeout |-> timeout,
     max_retries |-> max_retries]

ConfiguredClients ==
    {OuroborosClient(SlashedBaseUrl, 5, 0),
     OuroborosClient(DefaultBaseUrl, DefaultTimeout, 1)}

InitConfigured ==
    /\ self \in ConfiguredClients
    /\ requests_version \in RequestsVersions
    /\ now = 0
    /\ req = IdleRequest
    /\ w = IdleWait
    /\ threads = IdleThreads
    /\ cli = IdleCli
    /\ query = IdleQuery
    /\ health = IdleHealth
    /\ collect = IdleCollect

NextConfigured ==
    \/ Call_request
    \/ Call_wait_for_execution
    \/ Transport
    \/ BackoffSleep
    \/ WaitCheck
    \/ WaitStatusReturned
    \/ WaitInfoReturned
    \/ WaitPollSleep

SpecConfigured == InitConfigured /\ [][NextConfigured]_vars

\* C18 (configuration immutability): no step of a wrapper call, of _request
\* or of wait_for_execution changes the client's base URL, timeout or
\* max_retries; and every call in progress or over carries the URL made of
\* the client's base URL (as constructed, trailing slash stripped) and the
\* endpoint, and the client's timeout, on each of its transport attempts.
C18_ConfigurationImmutable ==
    /\ [][self' = self]_vars
    /\ [](self \in ConfiguredClients)
    /\ [](req.pc # "idle" =>
             /\ req.url = self.api_base_url \o req.endpoint
             /\ req.timeout = self.timeout)
    /\ [][req.pc \notin {"idle", "done"} /\ req'.pc # "idle" /\ req'.endpoint = req.endpoint =>
             /\ req'.url = req.url
             /\ req'.timeout = req.timeout]_vars

C18_Witness ==
    /\ self = [api_base_url |-> "http://api.example:8080", timeout |-> 5, max_retries |-> 0]
    /\ w.pc = "done"
    /\ w.outcome.kind = "return"
    /\ req.url = "http://api.example:8080/executions/e1/info"
    /\ req.timeout = 5

----------------------------------------------------------------------------
(* run.py: OuroborosRunner and main.  Each method of the runner sends one  *)
(* HTTP request with self.session and turns every failure into None or     *)
(* False; the model follows the requests main sends, in order, and the     *)
(* status the process exits with.                                          *)

\* the command lines the model starts main with
ArgSets ==
    [list : BOOLEAN, interactive : BOOLEAN, name : {"", "t1"},
     type : {"", "graph", "workflow", "all"},
     input : {"none", "file", "bad_file", "vars", "bad_vars"},
     dynamic_input : BOOLEAN, no_dynamic_input : BOOLEAN]

\* if args.list: ... elif args.interactive: ... elif args.name: ... else: ...
mode(args) ==
    CASE args.list -> "list"
      [] args.interactive -> "interactive"
      [] args.name # "" -> "name"
      [] OTHER -> "none"

\* what one request of the runner meets: a 200 whose body says success, a
\* 200 whose body does not, an error status, or an exception (connection
\* error, timeout, a body that is not JSON)
HttpReplies == {"200 success", "200 failure", "404", "500", "exception"}

\* the counterpart of returns_data that takes every 200 response for a
\* success
returns_data_any_200(reply) == reply \in {"200 success", "200 failure"}

\* the methods that return the parsed body on success and None otherwise
returns_data(reply) == reply = "200 success"

\* what /service/health may answer: besides the above, a body with a true
\* `healthy` and no `success`, and one with both
ServiceHealthReplies == HttpReplies \cup {"200 healthy", "200 success healthy"}

\* check_service_health: status 200 and data.get('healthy')
service_health(reply) == reply \in {"200 healthy", "200 success healthy"}

\* discover_graphs / discover_workflows: the list in a successful body holds
\* targets that are available, only unavailable ones, or nothing
DiscoverReplies ==
    {"200 targets", "200 unavailable", "200 empty", "200 failure", "500", "exception"}

discovered(reply) ==
    CASE reply = "200 targets" -> "targets"
      [] reply = "200 unavailable" -> "unavailable"
      [] reply = "200 empty" -> "empty"
      [] OTHER -> "None"

\* truth value of what discover_* returned: a non-empty list
truthy(found) == found \in {"targets", "unavailable"}

\* sys.exit(code) at the source line `line`
sys_exit(c, code, line) ==
    [c EXCEPT !.pc = "exited", !.exit_code = code, !.exit_line = line]

\* main returns and the interpreter ends the process with status 0
main_returns(c) == [c EXCEPT !.pc = "exited", !.exit_code = 0, !.exit_line = 0]

\* the runner sends one more request
sent(c, request) == [c EXCEPT !.requests = Append(c.requests, request)]

\* the runner sends one more request and the service answers it with `reply`
answered(c, request, reply) == [sent(c, request) EXCEPT !.reply = reply]

\* target_type = args.type or 'all'
list_type(args) == IF args.type = "" THEN "all" ELSE args.type

\* sys.exit(0 if success else 1)
list_exit(c) == sys_exit(c, IF c.success THEN 0 ELSE 1, 995)

Main ==
    /\ cli.pc = "idle"
    /\ \E args \in ArgSets :
          cli' = [cli EXCEPT !.pc = "check_api_health", !.args = args]
    /\ UNCHANGED <<self, requests_version, now, req, w, threads, query, health, collect>>

\* if not runner.check_api_health(): ... sys.exit(1)
CheckApiHealth ==
    /\ cli.pc = "check_api_health"
    /\ \E reply \in HttpReplies :
          LET c == [answered(cli, "GET /health", reply) EXCEPT
                       !.api_healthy = IF returns_data(reply) THEN "True" ELSE "False"]
          IN  cli' = IF returns_data(reply)
                     THEN [c EXCEPT !.pc = "check_service_health"]
                     ELSE sys_exit(c, 1, 979)
    /\ UNCHANGED <<self, requests_version, now, req, w, threads, query, health, collect>>

\* the counterpart of CheckServiceHealth that gives up when the services are
\* unhealthy
CheckServiceHealth_gate ==
    /\ cli.pc = "check_service_health"
    /\ \E reply \in ServiceHealthReplies :
          LET c == [answered(cli, "GET /service/health", reply) EXCEPT
                       !.service_healthy = IF service_health(reply) THEN "True" ELSE "False"]
              m == mode(cli.args)
          IN  cli' =
                CASE ~service_health(reply) -> sys_exit(c, 1, 985)
                  [] m = "list" ->
                       [c EXCEPT !.pc = IF list_type(c.args) \in {"all", "graph"}
                                        THEN "list_graphs" ELSE "list_workflows"]
                  [] m = "interactive" -> [c EXCEPT !.pc = "discover_graphs"]
                  [] m = "name" -> [c EXCEPT !.pc = "load_input"]
                  [] OTHER -> sys_exit(c, 1, 1140)
    /\ UNCHANGED <<self, requests_version, now, req, w, threads, query, health, collect>>

\* runner.check_service_health(), whose result only prints a warning; then
\* the branch on the mode
CheckServiceHealth ==
    /\ cli.pc = "check_service_health"
    /\ \E reply \in ServiceHealthReplies :
          LET c == [answered(cli, "GET /service/health", reply) EXCEPT
                       !.service_healthy = IF service_health(reply) THEN "True" ELSE "False"]
              m == mode(cli.args)
          IN  cli' =
                CASE m = "list" ->
                       [c EXCEPT !.pc = IF list_type(c.args) \in {"all", "graph"}
                                        THEN "list_graphs" ELSE "list_workflows"]
                  [] m = "interactive" -> [c EXCEPT !.pc = "discover_graphs"]
                  [] m = "name" -> [c EXCEPT !.pc = "load_input"]
                  [] OTHER -> sys_exit(c, 1, 1140)
    /\ UNCHANGED <<self, requests_version, now, req, w, threads, query, health, collect>>

\* list_targets: graphs = self.discover_graphs()
ListGraphs ==
    /\ cli.pc = "list_graphs"
    /\ \E reply \in DiscoverReplies :
          LET c == [answered(cli, "GET /graphs", reply) EXCEPT
                        !.graphs = discovered(reply),
                        !.success = truthy(discovered(reply))]
          IN  cli' = IF list_type(c.args) \in {"all", "workflow"}
                     THEN [c EXCEPT !.pc = "list_workflows"]
                     ELSE list_exit(c)
    /\ UNCHANGED <<self, requests_version, now, req, w, threads, query, health, collect>>

\* list_targets: workflows = self.discover_workflows()
ListWorkflows ==
    /\ cli.pc = "list_workflows"
    /\ \E reply \in DiscoverReplies :
          LET c == [answered(cli, "GET /workflows", reply) EXCEPT
                        !.workflows = discovered(reply),
                        !.success = cli.success /\ truthy(discovered(reply))]
          IN  cli' = list_exit(c)
    /\ UNCHANGED <<self, requests_version, now, req, w, threads, query, health, collect>>

\* interactive_mode: graphs = self.discover_graphs() or []
InteractiveDiscoverGraphs ==
    /\ cli.pc = "discover_graphs"
    /\ \E reply \in DiscoverReplies :
          cli' = [answered(cli, "GET /graphs", reply) EXCEPT
                     !.pc = "discover_workflows", !.graphs = discovered(reply)]
    /\ UNCHANGED <<self, requests_version, now, req, w, threads, query, health, collect>>

\* interactive_mode: workflows = self.discover_workflows() or []; it returns
\* when there is no target, or none whose status is available or active
InteractiveDiscoverWorkflows ==
    /\ cli.pc = "discover_workflows"
    /\ \E reply \in DiscoverReplies :
          LET c == [answered(cli, "GET /workflows", reply) EXCEPT !.workflows = discovered(reply)]
          IN  cli' = IF c.graphs = "targets" \/ c.workflows = "targets"
                     THEN [c EXCEPT !.pc = "select"]
                     ELSE main_returns(c)
    /\ UNCHANGED <<self, requests_version, now, req, w, threads, query, health, collect>>

\* what the user does at "Select target": picks a graph or a workflow of the
\* list, types something else, presses Ctrl-C, or closes the input
Selections == {"graph", "workflow", "invalid", "KeyboardInterrupt", "EOFError"}

\* interactive_mode: selection = input(...) and its checks
InteractiveSelect ==
    /\ cli.pc = "select"
    /\ \E selection \in Selections :
          /\ selection = "graph" => cli.graphs = "targets"
          /\ selection = "workflow" => cli.workflows = "targets"
          /\ cli' =
                CASE selection = "graph" ->
                       [cli EXCEPT !.pc = "graph_details", !.target_type = "graph",
                                   !.input_data = "default"]
                  [] selection = "workflow" ->
                       [cli EXCEPT !.pc = "workflow_details", !.target_type = "workflow"]
                  [] selection = "EOFError" -> sys_exit(cli, 1, 1149)
                  [] OTHER -> main_returns(cli)
    /\ UNCHANGED <<self, requests_version, now, req, w, threads, query, health, collect>>

\* main, once the target is a graph: a default input state when none is given
enter_graph(c) ==
    [c EXCEPT !.pc = "execute_graph", !.target_type = "graph",
              !.input_data = IF c.input_data = "empty" THEN "default" ELSE c.input_data]

\* should_collect_dynamic, inside `if not input_data or args.dynamic_input`
should_collect_dynamic(args, input_data) ==
    /\ input_data = "empty" \/ args.dynamic_input
    /\ args.dynamic_input \/ (input_data = "empty" /\ ~args.no_dynamic_input)

\* main, after the dynamic collection or without it: no input and
\* --dynamic-input exits, no input otherwise takes the sample values
settle_workflow_input(c) ==
    IF c.input_data = "empty"
    THEN IF c.args.dynamic_input
         THEN sys_exit(c, 1, 1085)
         ELSE [c EXCEPT !.pc = "execute_workflow", !.input_data = "sample"]
    ELSE [c EXCEPT !.pc = "execute_workflow"]

\* main, once the target is a workflow
enter_workflow(c) ==
    LET t == [c EXCEPT !.target_type = "workflow"]
    IN  IF should_collect_dynamic(t.args, t.input_data)
        THEN [t EXCEPT !.pc = "collect"]
        ELSE settle_workflow_input(t)

\* the counterpart of GetGraphDetails after which main asks for the workflow
\* of that name even when the graph was found
GetGraphDetails_then_workflow ==
    /\ cli.pc = "graph_details"
    /\ \E reply \in HttpReplies :
          LET c == answered(cli, "GET /graphs/t1", reply)
          IN  cli' = CASE mode(c.args) = "interactive" -> [c EXCEPT !.pc = "execute_graph"]
                       [] OTHER -> [c EXCEPT !.pc = "workflow_details"]
    /\ UNCHANGED <<self, requests_version, now, req, w, threads, query, health, collect>>

\* get_graph_details: interactive_mode ignores what it returns; main takes
\* the target for a graph when it returns the details, and else asks for
\* the workflow of that name
GetGraphDetails ==
    /\ cli.pc = "graph_details"
    /\ \E reply \in HttpReplies :
          LET c == answered(cli, "GET /graphs/t1", reply)
          IN  cli' = CASE mode(c.args) = "interactive" -> [c EXCEPT !.pc = "execute_graph"]
                       [] returns_data(reply) -> enter_graph(c)
                       [] OTHER -> [c EXCEPT !.pc = "workflow_details"]
    /\ UNCHANGED <<self, requests_version, now, req, w, threads, query, health, collect>>

\* get_workflow_details: ignored by interactive_mode; in main the target is
\* a workflow when it returns the details, and is not found otherwise
GetWorkflowDetails ==
    /\ cli.pc = "workflow_details"
    /\ \E reply \in HttpReplies :
          LET c == answered(cli, "GET /workflows/t1", reply)
          IN  cli' = CASE mode(c.args) = "interactive" -> [c EXCEPT !.pc = "collect"]
                       [] returns_data(reply) -> enter_workflow(c)
                       [] OTHER -> sys_exit(c, 1, 1030)
    /\ UNCHANGED <<self, requests_version, now, req, w, threads, query, health, collect>>

\* main with --name: load_input_from_file or parse_input_vars (either may
\* exit), then the branch on --type
LoadInput ==
    /\ cli.pc = "load_input"
    /\ LET input == cli.args.input
           c == [cli EXCEPT !.input_data = IF input \in {"file", "vars"}
                                            THEN "given" ELSE "empty"]
       IN  cli' = CASE input = "bad_file" -> sys_exit(cli, 1, 834)
                    [] input = "bad_vars" -> sys_exit(cli, 1, 851)
                    [] c.args.type = "" -> [c EXCEPT !.pc = "graph_details"]
                    [] c.args.type = "graph" -> enter_graph(c)
                    [] c.args.type = "workflow" -> enter_workflow(c)
                    [] OTHER -> sys_exit(c, 1, 1104)
    /\ UNCHANGED <<self, requests_version, now, req, w, threads, query, health, collect>>

\* what collect_dynamic_workflow_input returns: None (the schema request
\* failed, the user cancelled), {} (the workflow has no input field), or the
\* values collected
Collections == {"None", "empty", "values"}

\* collect_dynamic_workflow_input and what its caller does with the result:
\* interactive_mode falls back to the sample values on None; main merges it
\* into the input given, or takes it as the input
CollectDynamicInput ==
    /\ cli.pc = "collect"
    /\ \E collected \in Collections :
          LET c == [answered(cli, "GET /workflows/t1/input-fields", "") EXCEPT
                        !.collected = collected]
              taken == IF collected = "values" THEN "dynamic" ELSE "empty"
          IN  cli' =
                CASE mode(c.args) = "interactive" ->
                       [c EXCEPT !.pc = "execute_workflow",
                                 !.input_data = IF collected = "None"
                                                THEN "sample" ELSE taken]
                  [] collected = "None" -> settle_workflow_input(c)
                  [] c.input_data # "empty" ->
                       settle_workflow_input([c EXCEPT !.input_data = "merged"])
                  [] OTHER -> settle_workflow_input([c EXCEPT !.input_data = taken])
    /\ UNCHANGED <<self, requests_version, now, req, w, threads, query, health, collect>>

\* result = runner.execute_graph(...)
ExecuteGraph ==
    /\ cli.pc = "execute_graph"
    /\ \E reply \in HttpReplies :
          cli' = [answered(cli, "POST /graphs/t1/execute", reply) EXCEPT
                     !.pc = "result",
                     !.result = IF returns_data(reply) THEN "data" ELSE "None"]
    /\ UNCHANGED <<self, requests_version, now, req, w, threads, query, health, collect>>

\* result = runner.execute_workflow(...)
ExecuteWorkflow ==
    /\ cli.pc = "execute_workflow"
    /\ \E reply \in HttpReplies :
          cli' = [answered(cli, "POST /workflows/t1/execute", reply) EXCEPT
                     !.pc = "result",
                     !.result = IF returns_data(reply) THEN "data" ELSE "None"]
    /\ UNCHANGED <<self, requests_version, now, req, w, threads, query, health, collect>>

\* `if result:` at the end of interactive_mode, which prints and returns,
\* and at the end of main's --name branch, which exits with 0 or 1
HandleResult ==
    /\ cli.pc = "result"
    /\ cli' = CASE mode(cli.args) = "interactive" -> main_returns(cli)
                 [] cli.result = "data" -> sys_exit(cli, 0, 1128)
                 [] OTHER -> sys_exit(cli, 1, 1131)
    /\ UNCHANGED <<self, requests_version, now, req, w, threads, query, health, collect>>

InitCli ==
    /\ self = Client(0)
    /\ requests_version \in RequestsVersions
    /\ now = 0
    /\ req = IdleRequest
    /\ w = IdleWait
    /\ threads = IdleThreads
    /\ cli = IdleCli
    /\ query = IdleQuery
    /\ health = IdleHealth
    /\ collect = IdleCollect

NextCli ==
    \/ Main
    \/ CheckApiHealth
    \/ CheckServiceHealth
    \/ ListGraphs
    \/ ListWorkflows
    \/ InteractiveDiscoverGraphs
    \/ InteractiveDiscoverWorkflows
    \/ InteractiveSelect
    \/ LoadInput
    \/ GetGraphDetails
    \/ GetWorkflowDetails
    \/ CollectDynamicInput
    \/ ExecuteGraph
    \/ ExecuteWorkflow
    \/ HandleResult

SpecCli == InitCli /\ [][NextCli]_vars

----------------------------------------------------------------------------
(* Claims about run.py *)

\* the requested action ended in a failure: the API health check failed,
\* the target was not found, the listing failed, or the execution returned
\* no result
ActionFailed(c) ==
    \/ c.requests = <<"GET /health">>
    \/ c.exit_line = 1030
    \/ mode(c.args) = "list" /\ ~c.success
    \/ c.result = "None"

\* the requested action succeeded: everything asked for was listed, or the
\* execution returned a result
ActionSucceeded(c) ==
    \/ mode(c.args) = "list" /\ c.success /\ Len(c.requests) > 2
    \/ c.result = "data"

\* C19 (CLI exit status): when the process has exited, a requested action
\* that ended in a failure gives a non-zero exit status, and the exit status
\* is 0 only if the action succeeded, in every mode.
C19_CliExitStatus ==
    cli.pc = "exited" =>
        /\ ActionFailed(cli) => cli.exit_code # 0
        /\ cli.exit_code = 0 => ActionSucceeded(cli)

\* what does hold: the same for every mode but --interactive
C19_ExitStatusOutsideInteractive ==
    (cli.pc = "exited" /\ mode(cli.args) # "interactive") =>
        /\ ActionFailed(cli) => cli.exit_code # 0
        /\ cli.exit_code = 0 => ActionSucceeded(cli)

\* and that --interactive exits with 0 after an execution that returned no
\* result
C19_InteractiveFailureExitsZero ==
    (cli.pc = "exited" /\ mode(cli.args) = "interactive" /\ cli.result = "None") =>
        cli.exit_code = 0

----------------------------------------------------------------------------
(* list_graphs and list_workflows: the query parameters they build.  The   *)
(* params dict is the sequence of its entries in insertion order; an entry *)
(* holds the values that go on the wire under its key: one for a string or *)
(* a number, one per element for a list.                                   *)

Tags == {"a", "b", "c"}
TagLists == UNION {[1..n -> Tags] : n \in 0..MaxTags}

\* sep.join(items)
RECURSIVE join(_, _)
join(sep, items) ==
    CASE items = << >> -> ""
      [] Len(items) = 1 -> items[1]
      [] OTHER -> items[1] \o sep \o join(sep, Tail(items))

param(key, value) == [key |-> key, values |-> <<value>>]

\* the counterpart of tags_param that hands the list itself to requests,
\* which sends one parameter per element
tags_param_list(tags) == [key |-> "tags", values |-> tags]

\* params['tags'] = ','.join(tags)
tags_param(tags) == param("tags", join(",", tags))

\* if category: ... / if tags: ...   (None, "" and [] are all false)
optional_params(category, tags) ==
    (IF category # "" THEN <<param("category", category)>> ELSE << >>)
    \o (IF tags # << >> THEN <<tags_param(tags)>> ELSE << >>)

list_graphs_params(category, tags, limit, offset) ==
    <<param("limit", ToString(limit)), param("offset", ToString(offset))>>
    \o optional_params(category, tags)

list_workflows_params(category, tags, search, status, limit, offset) ==
    <<param("limit", ToString(limit)), param("offset", ToString(offset)),
      param("status", status)>>
    \o optional_params(category, tags)
    \o (IF search # "" THEN <<param("search", search)>> ELSE << >>)

\* the key=value pairs that requests puts in the query string for params
RECURSIVE query_pairs(_)
query_pairs(params) ==
    IF params = << >> THEN << >>
    ELSE [i \in 1..Len(params[1].values) |->
             [key |-> params[1].key, value |-> params[1].values[i]]]
         \o query_pairs(Tail(params))

\* the arguments of a call about to be made
InitQuery ==
    /\ self = Client(0)
    /\ requests_version \in RequestsVersions
    /\ now = 0
    /\ req = IdleRequest
    /\ w = IdleWait
    /\ threads = IdleThreads
    /\ cli = IdleCli
    /\ query \in [pc : {"idle"}, method : {"list_graphs", "list_workflows"},
                  category : {"", "nlp"}, tags : TagLists, search : {"", "tutor"},
                  endpoint : {""}, params : {<< >>}]
    /\ health = IdleHealth
    /\ collect = IdleCollect

\* list_graphs(category, tags) up to its call of _request
list_graphs ==
    /\ query.pc = "idle"
    /\ query.method = "list_graphs"
    /\ query.search = ""
    /\ query' = [query EXCEPT
                    !.pc = "called", !.endpoint = "/graphs",
                    !.params = list_graphs_params(query.category, query.tags, 100, 0)]
    /\ UNCHANGED <<self, requests_version, now, req, w, threads, cli, health, collect>>

\* list_workflows(category, tags, search) up to its call of _request
list_workflows ==
    /\ query.pc = "idle"
    /\ query.method = "list_workflows"
    /\ query' = [query EXCEPT
                    !.pc = "called", !.endpoint = "/workflows",
                    !.params = list_workflows_params(query.category, query.tags,
                                                     query.search, "active", 50, 0)]
    /\ UNCHANGED <<self, requests_version, now, req, w, threads, cli, health, collect>>

NextQuery == list_graphs \/ list_workflows

SpecQuery == InitQuery /\ [][NextQuery]_vars

IsTagsPair(pair) == pair.key = "tags"

\* the elements in order with a comma before each but the first
RECURSIVE CommaSeparated(_)
CommaSeparated(tags) ==
    IF Len(tags) = 1 THEN tags[1]
    ELSE CommaSeparated(SubSeq(tags, 1, Len(tags) - 1)) \o "," \o tags[Len(tags)]

\* C20 (query list encoding): list_graphs and list_workflows called with a
\* non-empty list of tags send exactly one query parameter named tags, and
\* its value is the elements of the list in their order, separated by
\* commas; called without tags they send no tags parameter.
C20_QueryListEncoding ==
    query.pc = "called" =>
        LET sent_tags == SelectSeq(query_pairs(query.params), IsTagsPair)
        IN  IF query.tags = << >>
            THEN sent_tags = << >>
            ELSE /\ Len(sent_tags) = 1
                 /\ sent_tags[1].value = CommaSeparated(query.tags)

C20_Witness ==
    /\ query.pc = "called"
    /\ query.method = "list_workflows"
    /\ query.tags = <<"a", "b", "c">>
    /\ query.category = "nlp"
    /\ Len(query_pairs(query.params)) >= 5
    /\ query_pairs(query.params)[5] = [key |-> "tags", value |-> "a,b,c"]

----------------------------------------------------------------------------
(* Further claims about _request and wait_for_execution *)

\* C21 (strictly sequential execution of one call): the events of a call
\* are attempt, sleep, attempt, sleep, ... with no two attempts and no two
\* sleeps adjacent; an attempt is made only by a call that is at its
\* transport step, one at a time, and after the first only when the sleep
\* that follows the previous attempt is over; a sleep ends only for a call
\* that is sleeping after an attempt that did not end it, and the clock has
\* then advanced by the length of that sleep.
C21_StrictlySequential ==
    /\ [](\A i \in DOMAIN req.log :
            req.log[i].ev = IF i % 2 = 1 THEN "attempt" ELSE "sleep")
    /\ [](/\ req.pc = "request" => Len(req.log) % 2 = 0
          /\ req.pc \in {"sleep", "done"} => Len(req.log) % 2 = 1)
    /\ [][ Attempts(req') > Attempts(req) =>
             /\ req.pc = "request"
             /\ req'.pc \in {"sleep", "done"}
             /\ req'.log = Append(req.log, req'.log[Len(req'.log)])
             /\ now' = now ]_vars
    /\ [][ Cardinality(SleepIdx(req')) > Cardinality(SleepIdx(req)) =>
             /\ req.pc = "sleep"
             /\ req'.pc = "request"
             /\ req'.log = Append(req.log, SleepEvent(req.wait_time))
             /\ now' = now + req.wait_time ]_vars

C21_Witness ==
    /\ req.pc = "done"
    /\ req.outcome.kind = "return"
    /\ Len(req.log) = 5
    /\ now = 3

\* C22 (constant poll interval): every sleep of the polling loop lasts
\* exactly poll_interval, however many polls went before; the sleeps number
\* the status fetches at the top of the loop and one less while and after a
\* fetch, so exactly one sleep lies between two consecutive fetches and none
\* precedes the first; a sleep starts only after a status fetch that returned
\* a non-terminal status, and after a terminal status no sleep is added.
C22_ConstantPollInterval ==
    /\ [](\A i \in DOMAIN w.sleeps : w.sleeps[i] = w.poll_interval)
    /\ [](StatusFetches(w) = 0 => w.sleeps = << >>)
    /\ [](w.pc = "check" => Len(w.sleeps) = StatusFetches(w))
    /\ [](w.pc \in {"status", "sleep", "info"} =>
              Len(w.sleeps) = StatusFetches(w) - 1)
    /\ [](w.pc = "sleep" => /\ Len(w.observed) = StatusFetches(w)
                            /\ ~TerminalSeen(w))
    /\ [][ w'.sleeps # w.sleeps =>
             /\ w.pc = "sleep"
             /\ w'.sleeps = Append(w.sleeps, w.poll_interval)
             /\ now' = now + w.poll_interval
             /\ StatusFetches(w') = StatusFetches(w) ]_vars
    /\ [][ StatusFetches(w') > StatusFetches(w) =>
             /\ w'.sleeps = w.sleeps
             /\ now' = now ]_vars
    /\ [][ TerminalSeen(w) => w'.sleeps = w.sleeps ]_vars

C22_Witness ==
    /\ w.pc = "done"
    /\ w.poll_interval = 2
    /\ w.max_wait = 3
    /\ w.sleeps = <<2>>
    /\ StatusFetches(w) = 2
    /\ LastObserved(w, "failed")

\* the endpoint of the latest call of the wait
LastCallEndpoint(wr) ==
    IF wr.calls[Len(wr.calls)] = "status"
    THEN status_endpoint(wr.execution_id)
    ELSE info_endpoint(wr.execution_id)

\* C23 (fresh retry budget per poll): every status fetch and the information
\* fetch of a wait starts a call of its own with retry counter 0 and no
\* attempt made; every transport attempt during a wait belongs to the fetch
\* in progress, whose counter counts the attempts of that fetch alone, and
\* one fetch makes at most max_retries + 1 attempts whatever the fetches
\* before it needed (so p status fetches make at most p * (max_retries + 1)
\* status attempts).
C23_FreshRetryBudget ==
    /\ [][ w'.calls # w.calls =>
             /\ req'.pc = "request"
             /\ req'.method = "GET"
             /\ req'.endpoint = LastCallEndpoint(w')
             /\ req'.retry_count = 0
             /\ req'.log = << >> ]_vars
    /\ [](w.pc \in {"status", "info"} =>
             /\ req.endpoint = LastCallEndpoint(w)
             /\ Attempts(req) <= self.max_retries + 1
             /\ Attempts(req) = req.retry_count + (IF req.pc = "request" THEN 0 ELSE 1))
    /\ [][ (w.pc # "idle" /\ Attempts(req') > Attempts(req)) =>
             /\ w.pc \in {"status", "info"}
             /\ w' = w
             /\ Attempts(req') = Attempts(req) + 1 ]_vars

\* the second status fetch used max_retries + 1 attempts after the first one
\* had done the same (the clock shows the backoff sleep of the first)
C23_Witness ==
    /\ w.pc = "status"
    /\ StatusFetches(w) = 2
    /\ w.poll_interval = 0
    /\ self.max_retries = 1
    /\ req.pc = "done"
    /\ req.outcome.kind = "return"
    /\ Attempts(req) = 2
    /\ now - w.start_time = 2

----------------------------------------------------------------------------
(* wait_for_execution under the wall clock: time.time() is read once for
   start_time and again at the top of the first iteration, and the second
   reading may be later than the first (the process is suspended, or the
   system clock is stepped, between the two statements) *)

\* by how much the second reading may exceed the first
ClockSteps == {2}

\* the clock moves on between start_time = time.time() and the first check
ClockMovesBeforeFirstCheck ==
    /\ w.pc = "check"
    /\ w.calls = << >>
    /\ now = w.start_time
    /\ \E d \in ClockSteps : now' = now + d
    /\ UNCHANGED <<self, requests_version, req, w, threads, cli, query, health, collect>>

NextWaitClock ==
    \/ Call_wait_for_execution
    \/ ClockMovesBeforeFirstCheck
    \/ WaitCheck
    \/ Transport
    \/ BackoffSleep
    \/ WaitStatusReturned
    \/ WaitInfoReturned
    \/ WaitPollSleep

SpecWaitClock == InitWait /\ [][NextWaitClock]_vars

\* a status fetch has just returned a terminal status
TerminalReturned ==
    /\ w.pc = "status"
    /\ req.pc = "done"
    /\ req.outcome.kind = "return"
    /\ req.outcome.payload.status \in TerminalStatuses

\* the timeout comes from the top of the loop only, and a terminal status
\* that a status fetch returned is honoured wherever the clock stands: the
\* information fetch follows `completed`, the failure errors follow `failed`
\* and `cancelled`
C24_TerminalHonoured ==
    /\ [][ TimedOut(w') /\ ~TimedOut(w) => w.pc = "check" ]_vars
    /\ [][ TerminalReturned /\ w' # w =>
             CASE req.outcome.payload.status = "completed" ->
                    /\ w'.pc = "info"
                    /\ req' = NewRequest(self, "GET", info_endpoint(w.execution_id))
               [] req.outcome.payload.status = "failed" ->
                    /\ w'.pc = "done"
                    /\ w'.outcome = APIError("Execution failed: "
                                        \o failure_reason(req.outcome.payload),
                                     None, EmptyDict)
               [] OTHER ->
                    /\ w'.pc = "done"
                    /\ w'.outcome = APIError("Execution was cancelled", None, EmptyDict) ]_vars
    /\ [][ w.pc = "info" /\ w' # w =>
             /\ req.pc = "done"
             /\ w'.pc = "done"
             /\ w'.outcome = req.outcome ]_vars

\* C24 as stated (the deadline is checked only at the start of a poll
\* iteration): whatever max_wait is, a wait that ends with the timeout has
\* issued at least one status fetch, and a terminal status returned by a
\* fetch is honoured even when the fetch ends after the deadline.
C24_FetchBeforeAnyTimeout ==
    /\ [](TimedOut(w) => StatusFetches(w) >= 1)
    /\ C24_TerminalHonoured

\* C24 as it holds: the first iteration issues a status fetch when its
\* reading of the clock is within max_wait of start_time (and raises the
\* timeout without any fetch when the clock has moved past the deadline
\* since start_time was read); a terminal status returned by a fetch is
\* honoured even when the fetch ends after the deadline.
C24_DeadlineAtLoopTop ==
    /\ [][ (w.pc = "check" /\ w.calls = << >> /\ w' # w) =>
             IF now - w.start_time <= w.max_wait
             THEN w'.calls = <<"status">> /\ w'.pc = "status"
             ELSE TimedOut(w') /\ w'.calls = << >> ]_vars
    /\ [](TimedOut(w) /\ StatusFetches(w) = 0 => now - w.start_time \in ClockSteps)
    /\ C24_TerminalHonoured

\* a failed status came back from a fetch that began at the deadline and
\* ended, after a backoff sleep, past it
C24_Witness ==
    /\ w.pc = "done"
    /\ w.max_wait = 1
    /\ LastObserved(w, "failed")
    /\ StatusFetches(w) = 2
    /\ now - w.start_time = 2
    /\ Attempts(req) = 2
    /\ w.outcome.kind = "APIError"
    /\ ~TimedOut(w)

----------------------------------------------------------------------------
(* check_health *)

HealthyResults ==
    [kind : {"response"}, exc : {""}, status_code : StatusCodes,
     content : {HealthDocs[i].text : i \in DOMAIN HealthDocs}]

\* _request is over: return response.get('status') == 'healthy', return
\* False on an APIError, and let any other exception through
check_health_returned(outcome) ==
    CASE outcome.kind = "return" ->
            [pc |-> "done",
             outcome |-> IF outcome.payload.status = "healthy" THEN "True" ELSE "False"]
      [] outcome.kind = "APIError" -> [pc |-> "done", outcome |-> "False"]
      [] OTHER -> [pc |-> "done", outcome |-> outcome.kind]

InitHealth ==
    /\ self \in {Client(n) : n \in 0..MaxRetries}
    /\ requests_version \in RequestsVersions
    /\ now = 0
    /\ req = IdleRequest
    /\ w = IdleWait
    /\ threads = IdleThreads
    /\ cli = IdleCli
    /\ query = IdleQuery
    /\ health = IdleHealth
    /\ collect = IdleCollect

\* response = self._request('GET', '/health')
Call_check_health ==
    /\ health.pc = "idle"
    /\ req.pc = "idle"
    /\ health' = [health EXCEPT !.pc = "request"]
    /\ req' = NewRequest(self, "GET", "/health")
    /\ UNCHANGED <<self, requests_version, now, w, threads, cli, query, collect>>

\* one transport attempt of the /health request
TransportHealth ==
    /\ req.pc = "request"
    /\ \E t \in TransportResults \cup HealthyResults :
          req' = request_attempt(req, self, requests_version, t)
    /\ UNCHANGED <<self, requests_version, now, w, threads, cli, query, health, collect>>

CheckHealthReturned ==
    /\ health.pc = "request"
    /\ req.pc = "done"
    /\ health' = check_health_returned(req.outcome)
    /\ UNCHANGED <<self, requests_version, now, req, w, threads, cli, query, collect>>

NextHealth ==
    \/ Call_check_health
    \/ TransportHealth
    \/ BackoffSleep
    \/ CheckHealthReturned

SpecHealth == InitHealth /\ [][NextHealth]_vars

\* the dispatcher failed: _request raised an APIError (an error-status
\* response or a network error) or let a decode error through
DispatcherFailed(r) == r.pc = "done" /\ r.outcome.kind # "return"

\* C25 (check_health never raises): check_health ends with True or False;
\* True exactly when the /health request returned a payload whose status is
\* "healthy"; False for every failure of the dispatcher, and for a network
\* error only after max_retries + 1 attempts and their backoff sleeps.
C25_CheckHealthNeverRaises ==
    health.pc = "done" =>
        /\ health.outcome \in {"True", "False"}
        /\ health.outcome = "True" <=>
              (req.outcome.kind = "return" /\ req.outcome.payload.status = "healthy")
        /\ DispatcherFailed(req) => health.outcome = "False"
        /\ IsNetworkError(req.outcome) =>
              /\ Attempts(req) = self.max_retries + 1
              /\ SleepDurations(req) = [i \in 1..self.max_retries |-> 2^(i - 1)]

\* what holds: with a `requests` whose JSON decode error is a
\* RequestException the claim is met
C25_HoldsWhenDecodeErrorIsRequestException ==
    JSONDecodeErrorIsRequestException(requests_version) => C25_CheckHealthNeverRaises

\* and with an older `requests`, check_health lets the decode error of an
\* unparsable body through, and is otherwise as claimed
C25_RaisesDecodeError ==
    (health.pc = "done" /\ health.outcome \notin {"True", "False"}) =>
        /\ ~JSONDecodeErrorIsRequestException(requests_version)
        /\ health.outcome = "JSONDecodeError"
        /\ req.outcome = RaisedJSONDecodeError
        /\ ~IsJson(req.response.content)

----------------------------------------------------------------------------
(* Further claims about run.py *)

\* the step main takes first for the action the arguments ask for
FirstStepOf(args) ==
    CASE mode(args) = "list" ->
            IF list_type(args) \in {"all", "graph"} THEN "list_graphs" ELSE "list_workflows"
      [] mode(args) = "interactive" -> "discover_graphs"
      [] mode(args) = "name" -> "load_input"
      [] OTHER -> "exited"

\* C26 (CLI health gate ordering): the first request of every run is the API
\* health check and the second, if any, the service health check; when the
\* API health check fails the process exits with status 1 having sent no
\* other request; when it succeeds the service health check follows, and
\* whatever that one answers main goes on to the first step of the action
\* the arguments ask for (and exits with status 1 only when they ask for
\* none).
C26_HealthGateOrdering ==
    /\ [](\A i \in DOMAIN cli.requests :
            /\ cli.requests[i] = "GET /health" <=> i = 1
            /\ cli.requests[i] = "GET /service/health" <=> i = 2)
    /\ [](cli.api_healthy = "False" =>
            /\ cli.pc = "exited"
            /\ cli.exit_code = 1
            /\ cli.exit_line = 979
            /\ cli.requests = <<"GET /health">>)
    /\ [](cli.api_healthy = "True" => cli.pc # "check_api_health")
    /\ [][ cli.pc = "check_api_health" /\ cli' # cli =>
             /\ cli'.api_healthy # "unset"
             /\ cli'.api_healthy = "True" => cli'.pc = "check_service_health" ]_vars
    /\ [][ cli.pc = "check_service_health" /\ cli' # cli =>
             /\ cli'.service_healthy # "unset"
             /\ cli'.pc = FirstStepOf(cli.args)
             /\ cli'.pc = "exited" => (cli'.exit_code = 1 /\ cli'.exit_line = 1140) ]_vars

\* a graph was executed and the run ended with status 0 although the
\* service health check had failed
C26_Witness ==
    /\ cli.pc = "exited"
    /\ cli.api_healthy = "True"
    /\ cli.service_healthy = "False"
    /\ cli.exit_code = 0
    /\ cli.exit_line = 1128
    /\ cli.requests[Len(cli.requests)] = "POST /graphs/t1/execute"

\* the requests of the operations C27 names: the health checks, the
\* discoveries and the executions
RunnerOperations ==
    {"GET /health", "GET /service/health", "GET /graphs", "GET /workflows",
     "POST /graphs/t1/execute", "POST /workflows/t1/execute"}

LastRequest(c) == c.requests[Len(c.requests)]

\* the reply is a 200 response whose body has a true `success`
has_success(reply) ==
    reply \in {"200 success", "200 success healthy",
               "200 targets", "200 unavailable", "200 empty"}

\* the operation behind the latest request of c gave False or None
FailureResult(c) ==
    CASE LastRequest(c) = "GET /health" -> c.api_healthy = "False"
      [] LastRequest(c) = "GET /service/health" -> c.service_healthy = "False"
      [] LastRequest(c) = "GET /graphs" -> c.graphs = "None"
      [] LastRequest(c) = "GET /workflows" -> c.workflows = "None"
      [] OTHER -> c.result = "None"

\* every step of the runner sends at most one request, and no step ends in
\* main's handler of an escaped exception
OneAttemptNoEscape ==
    [][ cli'.requests # cli.requests =>
          /\ cli'.requests = Append(cli.requests, LastRequest(cli'))
          /\ cli'.exit_line \notin {1144, 1149} ]_vars

\* C27 as stated (the CLI runner does not retry): each operation of the
\* runner makes exactly one transport attempt, and a transport error, a
\* timeout, a non-200 status or a body without a true `success` each give a
\* failure result, never an exception.
C27_RunnerDoesNotRetry ==
    /\ OneAttemptNoEscape
    /\ [][ (cli'.requests # cli.requests /\ LastRequest(cli') \in RunnerOperations
                /\ ~has_success(cli'.reply)) => FailureResult(cli') ]_vars

\* C27 as it holds: as above, with the body of /service/health judged by its
\* `healthy` field instead of `success`.
C27_RunnerDoesNotRetryAmended ==
    /\ OneAttemptNoEscape
    /\ [][ (cli'.requests # cli.requests /\ LastRequest(cli') \in RunnerOperations
                /\ IF LastRequest(cli') = "GET /service/health"
                   THEN ~service_health(cli'.reply)
                   ELSE ~has_success(cli'.reply)) => FailureResult(cli') ]_vars

\* the workflow execution request raised, and execute_workflow returned None
C27_Witness ==
    /\ cli.pc = "result"
    /\ cli.requests # << >>
    /\ LastRequest(cli) = "POST /workflows/t1/execute"
    /\ cli.reply = "exception"
    /\ cli.result = "None"

\* main runs a workflow by name with --dynamic-input, and the collection is over
DynamicWorkflowRun(c) ==
    /\ mode(c.args) = "name"
    /\ c.args.dynamic_input
    /\ c.target_type = "workflow"
    /\ c.collected # "unset"

\* input was supplied by --input or --input-vars
InputSupplied(c) == c.args.input \in {"file", "vars"}

\* the workflow execute request has been issued
WorkflowExecuted(c) ==
    \E i \in DOMAIN c.requests : c.requests[i] = "POST /workflows/t1/execute"

\* C28 (--dynamic-input on a workflow target): main exits before executing
\* the workflow only when the collection returned None and no input was
\* supplied, and then with a failure status; whenever the collection returned
\* a mapping, the empty one included, main goes on to the execute request
\* with the collected values (merged over the supplied ones, if any).
C28_DynamicInputGate ==
    /\ (DynamicWorkflowRun(cli) /\ cli.pc = "exited" /\ ~WorkflowExecuted(cli)) =>
          /\ cli.exit_code = 1
          /\ cli.collected = "None"
          /\ ~InputSupplied(cli)
    /\ (DynamicWorkflowRun(cli) /\ cli.collected # "None") =>
          /\ cli.pc \in {"execute_workflow", "result", "exited"}
          /\ cli.pc # "execute_workflow" => WorkflowExecuted(cli)
          /\ cli.input_data = IF InputSupplied(cli) THEN "merged"
                              ELSE IF cli.collected = "values" THEN "dynamic" ELSE "empty"

\* what holds: the run ends at line 1085 exactly when nothing was supplied
\* and the collection returned None or the empty mapping, and every other
\* run goes on to the execute request with the input as claimed
C28_ExitsWhenNoInputAtAll ==
    DynamicWorkflowRun(cli) =>
        IF ~InputSupplied(cli) /\ cli.collected \in {"None", "empty"}
        THEN /\ cli.pc = "exited"
             /\ cli.exit_code = 1
             /\ cli.exit_line = 1085
             /\ ~WorkflowExecuted(cli)
        ELSE /\ cli.pc \in {"execute_workflow", "result", "exited"}
             /\ cli.pc # "execute_workflow" => WorkflowExecuted(cli)
             /\ cli.input_data = CASE cli.collected = "None" -> "given"
                                   [] InputSupplied(cli) -> "merged"
                                   [] OTHER -> "dynamic"

----------------------------------------------------------------------------
(* collect_dynamic_workflow_input *)

\* the model follows schemas of at most MaxFields fields and at most
\* MaxEntries prompts for one field
MaxFields == 2
MaxEntries == 2

\* a field of the schema: is_required, default_value ('' when there is
\* none) and field_type; field i is named "f<i>"
Fields == [required : BOOLEAN, default : {"", "d"}, field_type : {"string", "integer"}]

Schemas == UNION {[1..n -> Fields] : n \in 0..MaxFields}

\* what the user types at a prompt, and what .strip() makes of it
RawEntries == {"", " ", "abc", "12"}
strip(raw) == IF raw = " " THEN "" ELSE raw

\* what the user answers to "Proceed with these inputs? (y/N)", and what
\* .strip().lower() makes of it
RawConfirms == {"y", "Y", " yes ", "", "n", "yeah"}
strip_lower(raw) ==
    CASE raw = "Y" -> "y"
      [] raw = " yes " -> "yes"
      [] OTHER -> raw

\* input() may also raise
KeyboardInterrupt == "<KeyboardInterrupt>"
EOFError == "<EOFError>"

\* values of the collected mapping: a str, an int, or no entry
StrValue(s) == [t |-> "str", s |-> s, n |-> 0]
IntValue(n) == [t |-> "int", s |-> "", n |-> n]
NoValue == [t |-> "absent", s |-> "", n |-> 0]
\* the None that _convert_input_value returns for a ValueError
ConvertedNone == [t |-> "None", s |-> "", n |-> 0]

\* int(value) of the entries that are integers
IntLiterals == [v \in {"12"} |-> 12]

\* _convert_input_value for the types 'string' and 'integer'
convert_input_value(value, field_type) ==
    CASE field_type = "string" -> StrValue(value)
      [] field_type = "integer" ->
            IF value \in DOMAIN IntLiterals THEN IntValue(IntLiterals[value]) ELSE ConvertedNone
      [] OTHER -> StrValue(value)

\* validate_workflow_input: the service finds the value valid or invalid, or
\* the validation is unavailable (None, or a body without success)
Validations == {"valid", "invalid", "unavailable"}

\* the loop goes on to the next field, or to the confirmation
next_field(c) ==
    IF c.index < Len(c.input_fields)
    THEN [c EXCEPT !.index = c.index + 1, !.entries = << >>]
    ELSE [c EXCEPT !.pc = "confirm", !.entries = << >>]

\* the entry of collect_dynamic_workflow_input, up to the first prompt:
\* get_workflow_input_fields gives None, or a body with the schema
collect_begin(c, fetched, schema) ==
    CASE ~fetched ->
            [c EXCEPT !.pc = "done", !.outcome = "None"]
      [] schema = << >> ->
            [c EXCEPT !.pc = "done", !.outcome = "mapping"]
      [] OTHER ->
            [c EXCEPT !.pc = "prompt", !.input_fields = schema, !.index = 1,
                      !.collected_inputs = [i \in 1..Len(schema) |-> NoValue],
                      !.skipped = [i \in 1..Len(schema) |-> FALSE]]

\* the counterpart of field_entry that takes an empty entry for a required
\* field as its value
field_entry_accepts_empty(c, event, validation) ==
    LET field == c.input_fields[c.index]
        user_input == strip(event)
        logged == [c EXCEPT !.entries = Append(c.entries, IF event \in RawEntries
                                                          THEN user_input ELSE event)]
        converted_value == convert_input_value(user_input, field.field_type)
    IN  CASE event = KeyboardInterrupt ->
                [logged EXCEPT !.pc = "done", !.outcome = "None"]
          [] event = EOFError -> logged
          [] user_input = "" /\ ~field.required ->
                IF field.default # ""
                THEN next_field([logged EXCEPT
                                    !.collected_inputs[c.index] = StrValue(field.default)])
                ELSE next_field([logged EXCEPT !.skipped[c.index] = TRUE])
          [] user_input = "" /\ field.required ->
                next_field([logged EXCEPT !.collected_inputs[c.index] = StrValue("")])
          [] converted_value = ConvertedNone -> logged
          [] validation = "invalid" -> logged
          [] OTHER ->
                next_field([logged EXCEPT !.collected_inputs[c.index] = converted_value])

\* one pass of the `while True` loop of a field: input(prompt).strip() and
\* what follows it
field_entry(c, event, validation) ==
    LET field == c.input_fields[c.index]
        user_input == strip(event)
        logged == [c EXCEPT !.entries = Append(c.entries, IF event \in RawEntries
                                                          THEN user_input ELSE event)]
        converted_value == convert_input_value(user_input, field.field_type)
    IN  CASE event = KeyboardInterrupt ->
                [logged EXCEPT !.pc = "done", !.outcome = "None"]
          [] event = EOFError -> logged
          [] user_input = "" /\ ~field.required ->
                IF field.default # ""
                THEN next_field([logged EXCEPT
                                    !.collected_inputs[c.index] = StrValue(field.default)])
                ELSE next_field([logged EXCEPT !.skipped[c.index] = TRUE])
          [] user_input = "" /\ field.required -> logged
          [] converted_value = ConvertedNone -> logged
          [] validation = "invalid" -> logged
          [] OTHER ->
                next_field([logged EXCEPT !.collected_inputs[c.index] = converted_value])

\* confirm in ['y', 'yes']
confirmed(confirm) == confirm \in {"y", "yes"}

\* the final confirmation: a KeyboardInterrupt leaves the function, an
\* EOFError is caught by the outer handler
confirmation(c, event) ==
    CASE event = KeyboardInterrupt ->
            [c EXCEPT !.pc = "done", !.outcome = "KeyboardInterrupt"]
      [] event = EOFError -> [c EXCEPT !.pc = "done", !.outcome = "None"]
      [] OTHER ->
            [c EXCEPT !.pc = "done", !.confirm = strip_lower(event),
                      !.outcome = IF confirmed(strip_lower(event))
                                  THEN "mapping" ELSE "None"]

InitCollect ==
    /\ self = Client(0)
    /\ requests_version \in RequestsVersions
    /\ now = 0
    /\ req = IdleRequest
    /\ w = IdleWait
    /\ threads = IdleThreads
    /\ cli = IdleCli
    /\ query = IdleQuery
    /\ health = IdleHealth
    /\ collect = IdleCollect

Call_collect_dynamic_workflow_input ==
    /\ collect.pc = "idle"
    /\ \E fetched \in BOOLEAN, schema \in Schemas :
          collect' = collect_begin(collect, fetched, schema)
    /\ UNCHANGED <<self, requests_version, now, req, w, threads, cli, query, health>>

\* the user answers the prompt of the current field (the model follows at
\* most MaxEntries prompts for one field)
FieldEntry ==
    /\ collect.pc = "prompt"
    /\ Len(collect.entries) < MaxEntries
    /\ \E event \in RawEntries \cup {KeyboardInterrupt, EOFError}, validation \in Validations :
          collect' = field_entry(collect, event, validation)
    /\ UNCHANGED <<self, requests_version, now, req, w, threads, cli, query, health>>

\* the user answers the final confirmation
Confirm ==
    /\ collect.pc = "confirm"
    /\ \E event \in RawConfirms \cup {KeyboardInterrupt, EOFError} :
          collect' = confirmation(collect, event)
    /\ UNCHANGED <<self, requests_version, now, req, w, threads, cli, query, health>>

NextCollect == Call_collect_dynamic_workflow_input \/ FieldEntry \/ Confirm

SpecCollect == InitCollect /\ [][NextCollect]_vars

\* the collection returned a mapping
ReturnedMapping(c) == c.pc = "done" /\ c.outcome = "mapping"

\* the mapping holds, for every required field, the converted form of a
\* non-empty entry, and nothing for an optional field skipped without default
MappingComplete(c) ==
    \A i \in DOMAIN c.input_fields :
        LET field == c.input_fields[i]
            value == c.collected_inputs[i]
        IN  /\ field.required =>
                 \E entry \in {strip(raw) : raw \in RawEntries} \ {""} :
                     /\ value = convert_input_value(entry, field.field_type)
                     /\ value.t = IF field.field_type = "integer" THEN "int" ELSE "str"
            /\ (~field.required /\ c.skipped[i] /\ field.default = "") => value = NoValue

\* an empty entry for a required field is not recorded, and the same field
\* is prompted for again
EmptyRequiredEntryRepeats ==
    [][ (/\ collect.pc = "prompt"
         /\ collect.input_fields[collect.index].required
         /\ collect'.entries = Append(collect.entries, ""))
        => /\ collect'.pc = "prompt"
           /\ collect'.index = collect.index
           /\ collect'.collected_inputs = collect.collected_inputs ]_vars

AutoDetect(c) == mode(c.args) = "name" /\ c.args.type = ""

Requested(c, request) == \E i \in DOMAIN c.requests : c.requests[i] = request

\* C30 (target type auto-detection order): with --name and without --type
\* the graph lookup is the first request after the health checks; the
\* workflow lookup is issued only right after a graph lookup that did not
\* succeed; a graph lookup that succeeds makes the target a graph, which is
\* then executed as a graph with no workflow request at all; when neither
\* lookup succeeds the process exits with status 1 and no execute request.
C30_AutoDetectionOrder ==
    /\ [](AutoDetect(cli) =>
            /\ Len(cli.requests) >= 3 => cli.requests[3] = "GET /graphs/t1"
            /\ \A i \in DOMAIN cli.requests :
                  /\ cli.requests[i] = "GET /graphs/t1" => i = 3
                  /\ cli.requests[i] = "GET /workflows/t1" => i = 4
            /\ cli.target_type = "graph" =>
                  /\ ~Requested(cli, "GET /workflows/t1")
                  /\ ~Requested(cli, "POST /workflows/t1/execute")
            /\ Requested(cli, "POST /graphs/t1/execute") => cli.target_type = "graph"
            /\ Requested(cli, "POST /workflows/t1/execute") => cli.target_type = "workflow"
            /\ cli.exit_line = 1030 =>
                  /\ cli.exit_code = 1
                  /\ cli.requests = <<"GET /health", "GET /service/health",
                                      "GET /graphs/t1", "GET /workflows/t1">>)
    /\ [][ (AutoDetect(cli) /\ cli.pc = "graph_details" /\ cli' # cli) =>
             /\ cli'.requests = Append(cli.requests, "GET /graphs/t1")
             /\ IF has_success(cli'.reply)
                THEN cli'.target_type = "graph" /\ cli'.pc = "execute_graph"
                ELSE cli'.target_type = "" /\ cli'.pc = "workflow_details" ]_vars
    /\ [][ (AutoDetect(cli) /\ cli.pc = "workflow_details" /\ cli' # cli) =>
             /\ cli'.requests = Append(cli.requests, "GET /workflows/t1")
             /\ IF has_success(cli'.reply)
                THEN cli'.target_type = "workflow"
                ELSE /\ cli'.pc = "exited"
                     /\ cli'.exit_code = 1
                     /\ cli'.exit_line = 1030 ]_vars

\* the name was found as a graph at once, executed as one, and the run
\* ended with status 0
C30_Witness ==
    /\ AutoDetect(cli)
    /\ cli.pc = "exited"
    /\ cli.exit_code = 0
    /\ cli.target_type = "graph"
    /\ cli.requests = <<"GET /health", "GET /service/health",
                        "GET /graphs/t1", "POST /graphs/t1/execute">>

====
